---- MODULE Spec2Model ----
(***************************************************************************)
(* Calendar availability engine of meeting_assistant.                      *)
(*                                                                         *)
(*   src/tools.py              _free_slots_from_schedule,                  *)
(*                             check_specific_time_availability            *)
(*   src/meeting_assistant.py  _free_slots_from_schedule                   *)
(*                                                                         *)
(* An instant is a whole number of minutes on one day's clock (every       *)
(* timestamp of one request is in the same timezone).  An ISO timestamp    *)
(* string is a record: the instant it denotes when it is well formed, and  *)
(* a flag telling whether dateutil's isoparse accepts it.                  *)
(***************************************************************************)
EXTENDS Integers, Sequences, FiniteSets, TLC

VARIABLES
    payload,        \* the getSchedule response (argument `payload`)
    start_iso,      \* day window start (argument `start_iso`)
    end_iso,        \* day window end (argument `end_iso`)
    required_min,   \* argument `required_min`
    start_dt,       \* check_specific_time_availability: parsed date + start_time
    duration_min,   \* check_specific_time_availability: argument `duration_min`
    pc,             \* "ready" | "returned" | "raised"
    fn,             \* the function that ran: "none" | "tools" | "assistant" | "check"
    busy_periods,   \* _free_slots_from_schedule: the sorted list `busy_periods`
    free_slots,     \* the list returned by _free_slots_from_schedule
    fetch,          \* get_schedule in check_specific_time_availability: "none" | "ok" | "failed"
    check_result,   \* the dict returned by check_specific_time_availability
    calendar,       \* the organizer's calendar at Microsoft Graph: the events created
    calls,          \* the tool calls completed so far, each with its result
    input_items,    \* items_to_messages_fixed: argument `items`
    next_item,      \* items_to_messages_fixed: position of the for loop in `items`
    messages,       \* items_to_messages_fixed: the list `result`
    current_assistant_msg,  \* items_to_messages_fixed: the open assistant message
    conv_pc,        \* items_to_messages_fixed: "idle" | "start" | "loop" | "returned"
    num_days,       \* get_next_business_days: argument `num_days`
    today,          \* get_next_business_days: datetime.now().date()
    current_date,   \* get_next_business_days: the local `current_date`
    business_days,  \* get_next_business_days: the list `business_days`
    days_pc         \* get_next_business_days: "idle" | "loop" | "returned" | "raised"

ConverterVars == <<input_items, next_item, messages, current_assistant_msg, conv_pc>>
DaysVars == <<num_days, today, current_date, business_days, days_pc>>

vars == <<payload, start_iso, end_iso, required_min, start_dt, duration_min,
          pc, fn, busy_periods, free_slots, fetch, check_result, calendar, calls,
          ConverterVars, DaysVars>>

\* current_assistant_msg = None
NoMessage == [role |-> "none", content |-> "", tool_call_id |-> "", tool_calls |-> << >>]

\* no conversion and no business-day call is in progress
ConverterIdle ==
    /\ input_items = [is_str |-> FALSE, text |-> "", list |-> << >>]
    /\ next_item = 1
    /\ messages = << >>
    /\ current_assistant_msg = NoMessage
    /\ conv_pc = "idle"
DaysIdle ==
    /\ num_days = 0
    /\ today = 0
    /\ current_date = 0
    /\ business_days = << >>
    /\ days_pc = "idle"

----------------------------------------------------------------------------
(* Bounds of the model.                                                    *)

MaxTime == 5        \* instants are 0..MaxTime
MaxItems == 2       \* schedule items in one payload
WinStart == 1       \* the day window is [WinStart, MaxTime - 1]

Times == 0..MaxTime
WinEnd == MaxTime - 1
\* required_min / duration_min: negative, zero, up to one more than the window length
Durations == -1..(WinEnd - WinStart + 1)

Min(a, b) == IF a <= b THEN a ELSE b
Max(a, b) == IF a >= b THEN a ELSE b

----------------------------------------------------------------------------
(* The schedule payload.                                                   *)

\* item.get("status") yields None for a missing key and for a JSON null.
Missing == "<missing>"
Null == "<null>"

Timestamp(t) == [dateTime |-> t, wellFormed |-> TRUE]
Garbage == [dateTime |-> 0, wellFormed |-> FALSE]

Item(st, s, e) == [status |-> st, start |-> s, end |-> e]

\* {"value": [{"scheduleItems": items}]}
PayloadOf(items) ==
    [hasValue |-> TRUE, value |-> << [key |-> "list", scheduleItems |-> items] >>]
\* {} : no "value" key
PayloadNoValue == [hasValue |-> FALSE, value |-> << >>]
\* {"value": []}
PayloadEmptyValue == [hasValue |-> TRUE, value |-> << >>]
\* {"value": [{}]} : the first schedule has no "scheduleItems" key
PayloadNoItems ==
    [hasValue |-> TRUE, value |-> << [key |-> "missing", scheduleItems |-> << >>] >>]
\* {"value": [{"scheduleItems": null}]}
PayloadNullItems ==
    [hasValue |-> TRUE, value |-> << [key |-> "null", scheduleItems |-> << >>] >>]

SeqsUpTo(S, n) == UNION {[1..k -> S] : k \in 0..n}

----------------------------------------------------------------------------
(* Helpers shared by both files.                                           *)

\* item.get("status") or ""
StatusOrEmpty(item) == IF item.status \in {Missing, Null} THEN "" ELSE item.status

\* str.lower() on the status strings of the model
Lower(s) ==
    CASE s = "Busy" -> "busy"
      [] s = "BUSY" -> "busy"
      [] s = "OOF" -> "oof"
      [] s = "Tentative" -> "tentative"
      [] s = "Free" -> "free"
      [] s = "workingElsewhere" -> "workingelsewhere"
      [] OTHER -> s

BlockingStatuses == {"busy", "oof", "tentative"}

\* variant: the status is compared without lower-casing it
IsBlockingCaseSensitive(item) == StatusOrEmpty(item) \in BlockingStatuses
\* status = (item.get("status") or "").lower(); status in ("busy","oof","tentative")
IsBlocking(item) == Lower(StatusOrEmpty(item)) \in BlockingStatuses

\* dp.isoparse succeeds on both timestamps of the item
Parses(item) == item.start.wellFormed /\ item.end.wellFormed

\* variant: payload["value"][0]["scheduleItems"], subscripts instead of the guard and .get
ScheduleItemsBySubscript(p) ==
    IF p.hasValue /\ Len(p.value) > 0 /\ p.value[1].key = "list"
    THEN [raised |-> FALSE, items |-> p.value[1].scheduleItems]
    ELSE [raised |-> TRUE, items |-> << >>]

\* schedule_items = []
\* if payload.get("value") and len(payload["value"]) > 0:
\*     schedule_items = payload["value"][0].get("scheduleItems", [])
\* for item in schedule_items:      (raises on a null "scheduleItems")
ScheduleItems(p) ==
    IF p.hasValue /\ Len(p.value) > 0
    THEN CASE p.value[1].key = "list" ->
                  [raised |-> FALSE, items |-> p.value[1].scheduleItems]
           [] p.value[1].key = "missing" -> [raised |-> FALSE, items |-> << >>]
           [] OTHER -> [raised |-> TRUE, items |-> << >>]
    ELSE [raised |-> FALSE, items |-> << >>]

\* list.sort(key=lambda x: x[0]) : a stable sort by start.  InsertByStart puts x
\* behind every element whose start is <= x's start.
RECURSIVE InsertByStart(_, _)
InsertByStart(sorted, x) ==
    IF sorted = << >> THEN << x >>
    ELSE IF Head(sorted)[1] <= x[1]
         THEN << Head(sorted) >> \o InsertByStart(Tail(sorted), x)
         ELSE << x >> \o sorted

\* variant: a sort by start that does not keep the input order of equal starts
RECURSIVE SortByStartUnstable(_)
SortByStartUnstable(s) ==
    IF s = << >> THEN << >>
    ELSE LET rest == SortByStartUnstable(Tail(s))
             x == Head(s)
             before == SelectSeq(rest, LAMBDA y : y[1] <= x[1])
             after == SelectSeq(rest, LAMBDA y : y[1] > x[1])
         IN before \o << x >> \o after

\* variant: the busy periods are left in input order
NoSort(s) == s

RECURSIVE SortByStart(_)
SortByStart(s) ==
    IF s = << >> THEN << >>
    ELSE InsertByStart(SortByStart(SubSeq(s, 1, Len(s) - 1)), s[Len(s)])

----------------------------------------------------------------------------
(* src/tools.py : _free_slots_from_schedule                                *)

\* lines 63-70 : no try/except, an unparsable timestamp of a blocking item raises
RECURSIVE ToolsExtract(_, _)
ToolsExtract(items, periods) ==
    IF items = << >> THEN [raised |-> FALSE, busy_periods |-> periods]
    ELSE LET item == Head(items) IN
         IF IsBlocking(item)
         THEN IF Parses(item)
              THEN ToolsExtract(Tail(items),
                       Append(periods, << item.start.dateTime, item.end.dateTime >>))
              ELSE [raised |-> TRUE, busy_periods |-> periods]
         ELSE ToolsExtract(Tail(items), periods)

ToolsSlot(current_time, slot_end, max_end, req) ==
    [start |-> current_time, end |-> slot_end, maxEnd |-> max_end, duration_min |-> req]

\* variant: the slot takes the whole gap up to the busy start
ToolsSweepStepNoCap(st, busy, req) ==
    LET busy_start == busy[1]
        busy_end == busy[2]
        gap_duration == busy_start - st.current_time
        slots == IF busy_start > st.current_time /\ gap_duration >= req
                 THEN Append(st.free_slots,
                          ToolsSlot(st.current_time, busy_start, busy_start, req))
                 ELSE st.free_slots
    IN [current_time |-> Max(st.current_time, busy_end), free_slots |-> slots]

\* variant: the cursor jumps to busy_end even when that moves it back
ToolsSweepStepNoMax(st, busy, req) ==
    LET busy_start == busy[1]
        busy_end == busy[2]
        gap_duration == busy_start - st.current_time
        slots == IF busy_start > st.current_time /\ gap_duration >= req
                 THEN Append(st.free_slots,
                          ToolsSlot(st.current_time,
                                    Min(st.current_time + req, busy_start),
                                    busy_start, req))
                 ELSE st.free_slots
    IN [current_time |-> busy_end, free_slots |-> slots]

\* variant: the gap is not compared with required_min
ToolsSweepStepEveryGap(st, busy, req) ==
    LET busy_start == busy[1]
        busy_end == busy[2]
        slots == IF busy_start > st.current_time
                 THEN Append(st.free_slots,
                          ToolsSlot(st.current_time,
                                    Min(st.current_time + req, busy_start),
                                    busy_start, req))
                 ELSE st.free_slots
    IN [current_time |-> Max(st.current_time, busy_end), free_slots |-> slots]

\* variant: a new slot is put in front of the list
ToolsSweepStepPrepending(st, busy, req) ==
    LET busy_start == busy[1]
        busy_end == busy[2]
        gap_duration == busy_start - st.current_time
        slots == IF busy_start > st.current_time /\ gap_duration >= req
                 THEN << ToolsSlot(st.current_time,
                                   Min(st.current_time + req, busy_start),
                                   busy_start, req) >> \o st.free_slots
                 ELSE st.free_slots
    IN [current_time |-> Max(st.current_time, busy_end), free_slots |-> slots]

\* lines 80-99 : one iteration of the loop over the sorted busy periods
ToolsSweepStep(st, busy, req) ==
    LET busy_start == busy[1]
        busy_end == busy[2]
        gap_duration == busy_start - st.current_time
        slots == IF busy_start > st.current_time /\ gap_duration >= req
                 THEN Append(st.free_slots,
                          ToolsSlot(st.current_time,
                                    Min(st.current_time + req, busy_start),
                                    busy_start, req))
                 ELSE st.free_slots
    IN [current_time |-> Max(st.current_time, busy_end), free_slots |-> slots]

\* variant: the list of slots is not created anew by the call, the slots of the
\* call before are still in it
RECURSIVE ToolsSweepKeepingSlots(_, _, _, _)
ToolsSweepKeepingSlots(periods, k, start, req) ==
    IF k = 0 THEN [current_time |-> start, free_slots |-> free_slots]
    ELSE ToolsSweepStep(ToolsSweepKeepingSlots(periods, k - 1, start, req),
                        periods[k], req)

\* the loop state after the first k busy periods
RECURSIVE ToolsSweep(_, _, _, _)
ToolsSweep(periods, k, start, req) ==
    IF k = 0 THEN [current_time |-> start, free_slots |-> << >>]
    ELSE ToolsSweepStep(ToolsSweep(periods, k - 1, start, req), periods[k], req)

\* variant: the trailing gap must be longer than required_min
ToolsTrailingStrict(st, day_end, req) ==
    IF st.current_time < day_end /\ day_end - st.current_time > req
    THEN Append(st.free_slots,
             ToolsSlot(st.current_time, st.current_time + req, day_end, req))
    ELSE st.free_slots

\* variant: the trailing slot takes the whole remaining gap
ToolsTrailingWholeGap(st, day_end, req) ==
    IF st.current_time < day_end /\ day_end - st.current_time >= req
    THEN Append(st.free_slots, ToolsSlot(st.current_time, day_end, day_end, req))
    ELSE st.free_slots

\* lines 101-113 : the gap after the last busy period
ToolsTrailing(st, day_end, req) ==
    IF st.current_time < day_end /\ day_end - st.current_time >= req
    THEN Append(st.free_slots,
             ToolsSlot(st.current_time, st.current_time + req, day_end, req))
    ELSE st.free_slots

\* lines 44-115 : the whole function; raised is an exception leaving it
ToolsFreeSlots(p, start, day_end, req) ==
    LET si == ScheduleItems(p)
        ex == ToolsExtract(si.items, << >>)
        sorted == SortByStart(ex.busy_periods)
    IN IF si.raised \/ ex.raised
       THEN [raised |-> TRUE, busy_periods |-> << >>, free_slots |-> << >>]
       ELSE [raised |-> FALSE,
             busy_periods |-> sorted,
             free_slots |-> ToolsTrailing(
                 ToolsSweep(sorted, Len(sorted), start, req), day_end, req)]

----------------------------------------------------------------------------
(* src/meeting_assistant.py : _free_slots_from_schedule                    *)

\* lines 133-143 : try/except around the two isoparse calls, the item is skipped
RECURSIVE AssistantExtract(_, _)
AssistantExtract(items, periods) ==
    IF items = << >> THEN [raised |-> FALSE, busy_periods |-> periods]
    ELSE LET item == Head(items) IN
         IF IsBlocking(item) /\ Parses(item)
         THEN AssistantExtract(Tail(items),
                  Append(periods, << item.start.dateTime, item.end.dateTime >>))
         ELSE AssistantExtract(Tail(items), periods)

AssistantSlot(current_time, slot_end, req) ==
    [start |-> current_time, end |-> slot_end, duration_min |-> req]

\* lines 151-163
AssistantSweepStep(st, busy, req) ==
    LET busy_start == busy[1]
        busy_end == busy[2]
        gap_duration == busy_start - st.current_time
        slots == IF busy_start > st.current_time /\ gap_duration >= req
                 THEN Append(st.free_slots,
                          AssistantSlot(st.current_time, st.current_time + req, req))
                 ELSE st.free_slots
    IN [current_time |-> Max(st.current_time, busy_end), free_slots |-> slots]

RECURSIVE AssistantSweep(_, _, _, _)
AssistantSweep(periods, k, start, req) ==
    IF k = 0 THEN [current_time |-> start, free_slots |-> << >>]
    ELSE AssistantSweepStep(AssistantSweep(periods, k - 1, start, req),
                            periods[k], req)

\* lines 165-175
AssistantTrailing(st, day_end, req) ==
    IF st.current_time < day_end /\ day_end - st.current_time >= req
    THEN Append(st.free_slots,
             AssistantSlot(st.current_time, st.current_time + req, req))
    ELSE st.free_slots

\* lines 126-176
AssistantFreeSlots(p, start, day_end, req) ==
    LET si == ScheduleItems(p)
        ex == AssistantExtract(si.items, << >>)
        sorted == SortByStart(ex.busy_periods)
    IN IF si.raised
       THEN [raised |-> TRUE, busy_periods |-> << >>, free_slots |-> << >>]
       ELSE [raised |-> FALSE,
             busy_periods |-> sorted,
             free_slots |-> AssistantTrailing(
                 AssistantSweep(sorted, Len(sorted), start, req), day_end, req)]

----------------------------------------------------------------------------
(* src/tools.py : check_specific_time_availability                         *)

\* variant: touching endpoints count as overlap
OverlapsClosed(s, e, item_start, item_end) == ~(e < item_start \/ s > item_end)

\* line 293 : not (end_dt <= item_start or start_dt >= item_end)
Overlaps(s, e, item_start, item_end) == ~(e <= item_start \/ s >= item_end)

\* lines 294-298
ConflictEntry(item) ==
    [start |-> item.start, end |-> item.end, status |-> Lower(StatusOrEmpty(item))]

\* variant: the loop stops at the first conflict
RECURSIVE CheckConflictsStopAtFirst(_, _, _, _)
CheckConflictsStopAtFirst(items, s, e, conflicts) ==
    IF items = << >> THEN [raised |-> FALSE, conflicts |-> conflicts]
    ELSE LET item == Head(items) IN
         IF IsBlocking(item)
         THEN IF ~Parses(item) THEN [raised |-> TRUE, conflicts |-> conflicts]
              ELSE IF Overlaps(s, e, item.start.dateTime, item.end.dateTime)
                   THEN [raised |-> FALSE, conflicts |-> Append(conflicts, ConflictEntry(item))]
                   ELSE CheckConflictsStopAtFirst(Tail(items), s, e, conflicts)
         ELSE CheckConflictsStopAtFirst(Tail(items), s, e, conflicts)

\* lines 286-298 : the loop over the schedule items; an unparsable timestamp of a
\* blocking item raises out of the loop
RECURSIVE CheckConflicts(_, _, _, _)
CheckConflicts(items, s, e, conflicts) ==
    IF items = << >> THEN [raised |-> FALSE, conflicts |-> conflicts]
    ELSE LET item == Head(items) IN
         IF IsBlocking(item)
         THEN IF ~Parses(item) THEN [raised |-> TRUE, conflicts |-> conflicts]
              ELSE IF Overlaps(s, e, item.start.dateTime, item.end.dateTime)
                   THEN CheckConflicts(Tail(items), s, e,
                            Append(conflicts, ConflictEntry(item)))
                   ELSE CheckConflicts(Tail(items), s, e, conflicts)
         ELSE CheckConflicts(Tail(items), s, e, conflicts)

\* lines 312-316 : the except branch
CheckFailed ==
    [error |-> "Failed to check availability", is_available |-> FALSE, conflicts |-> << >>]

\* variant: a failed fetch is read as an empty schedule
CheckSpecificTimeAvailabilityFetchSwallowed(fetched, p, s, dur) ==
    LET si == ScheduleItems(IF fetched THEN p ELSE PayloadOf(<< >>))
        r == CheckConflicts(si.items, s, s + dur, << >>)
    IN IF si.raised \/ r.raised THEN CheckFailed
       ELSE [error |-> "", is_available |-> Len(r.conflicts) = 0, conflicts |-> r.conflicts]

\* lines 268-316 : fetched says whether get_schedule returned p or raised
CheckSpecificTimeAvailability(fetched, p, s, dur) ==
    LET si == ScheduleItems(p)
        r == CheckConflicts(si.items, s, s + dur, << >>)
    IN IF ~fetched \/ si.raised \/ r.raised THEN CheckFailed
       ELSE [error |-> "", is_available |-> Len(r.conflicts) = 0, conflicts |-> r.conflicts]

----------------------------------------------------------------------------
(* State machine: one request, one call.                                   *)

NoCheck == [error |-> "", is_available |-> FALSE, conflicts |-> << >>]

\* payloads whose items are all well-formed "busy" periods with start <= end
Periods == {p \in Times \X Times : p[1] <= p[2]}
BusyItems == {Item("busy", Timestamp(p[1]), Timestamp(p[2])) : p \in Periods}
BusyPayloads == {PayloadOf(items) : items \in SeqsUpTo(BusyItems, MaxItems)}

\* a request with its payload drawn from P and its duration from D
InitOver(P, D) ==
    /\ payload \in P
    /\ start_iso = WinStart
    /\ end_iso = WinEnd
    /\ required_min \in D
    /\ start_dt = start_iso
    /\ duration_min = required_min
    /\ pc = "ready"
    /\ fn = "none"
    /\ busy_periods = << >>
    /\ free_slots = << >>
    /\ fetch = "none"
    /\ check_result = NoCheck
    /\ calendar = << >>
    /\ calls = << >>
    /\ ConverterIdle
    /\ DaysIdle

Init == InitOver(BusyPayloads, Durations)

\* payloads of every shape, whose items carry every kind of status and may carry
\* an unreadable timestamp; their periods lie inside the window
Statuses == {"busy", "oof", "tentative", "Tentative", "BUSY", "free",
             "workingElsewhere", Missing, Null}
MixedStamps ==
    { << Timestamp(WinStart), Timestamp(WinStart + 1) >>,
      << Timestamp(WinStart + 1), Timestamp(WinStart + 2) >>,
      << Garbage, Timestamp(WinStart + 2) >>,
      << Timestamp(WinStart + 1), Garbage >> }
MixedItems == {Item(st, se[1], se[2]) : st \in Statuses, se \in MixedStamps}
MixedPayloads ==
    {PayloadOf(items) : items \in SeqsUpTo(MixedItems, MaxItems)}
        \cup {PayloadNoValue, PayloadEmptyValue, PayloadNoItems, PayloadNullItems}

InitItems == InitOver(MixedPayloads, 1..2)

Inputs == <<payload, start_iso, end_iso, required_min, start_dt, duration_min>>

\* variant: the loop takes the items off the payload's own list
CallToolsFreeSlotsConsumingPayload ==
    /\ pc = "ready"
    /\ LET r == ToolsFreeSlots(payload, start_iso, end_iso, required_min) IN
         /\ pc' = IF r.raised THEN "raised" ELSE "returned"
         /\ busy_periods' = r.busy_periods
         /\ free_slots' = r.free_slots
         /\ payload' = IF r.raised THEN payload ELSE PayloadOf(<< >>)
    /\ fn' = "tools"
    /\ UNCHANGED <<start_iso, end_iso, required_min, start_dt, duration_min,
                   fetch, check_result, calendar, calls, ConverterVars, DaysVars>>

\* tools.py : _free_slots_from_schedule(payload, start_iso, end_iso, required_min)
CallToolsFreeSlots ==
    /\ pc = "ready"
    /\ LET r == ToolsFreeSlots(payload, start_iso, end_iso, required_min) IN
         /\ pc' = IF r.raised THEN "raised" ELSE "returned"
         /\ busy_periods' = r.busy_periods
         /\ free_slots' = r.free_slots
    /\ fn' = "tools"
    /\ UNCHANGED <<Inputs, fetch, check_result, calendar, calls, ConverterVars, DaysVars>>

\* meeting_assistant.py : _free_slots_from_schedule(payload, start_iso, end_iso, required_min)
CallAssistantFreeSlots ==
    /\ pc = "ready"
    /\ LET r == AssistantFreeSlots(payload, start_iso, end_iso, required_min) IN
         /\ pc' = IF r.raised THEN "raised" ELSE "returned"
         /\ busy_periods' = r.busy_periods
         /\ free_slots' = r.free_slots
    /\ fn' = "assistant"
    /\ UNCHANGED <<Inputs, fetch, check_result, calendar, calls, ConverterVars, DaysVars>>

Next == CallToolsFreeSlots \/ CallAssistantFreeSlots

Spec == Init /\ [][Next]_vars

\* tools.py : check_specific_time_availability(date, start_time, duration_min); the
\* schedule fetch either returns the payload or fails
CallCheckSpecificTimeAvailability ==
    /\ pc = "ready"
    /\ \E fetched \in BOOLEAN :
          /\ fetch' = IF fetched THEN "ok" ELSE "failed"
          /\ check_result' =
                CheckSpecificTimeAvailability(fetched, payload, start_dt, duration_min)
    /\ pc' = "returned"
    /\ fn' = "check"
    /\ UNCHANGED <<Inputs, busy_periods, free_slots, calendar, calls,
                   ConverterVars, DaysVars>>

NextCheck == CallCheckSpecificTimeAvailability

\* one availability check of the interval [start_dt, start_dt + duration_min]
SpecCheck == Init /\ [][NextCheck]_vars

NextItems == Next \/ NextCheck

\* any of the three functions on a payload of any shape
SpecItems == InitItems /\ [][NextItems]_vars

----------------------------------------------------------------------------
(* Vocabulary of the properties.                                           *)

Returned(f) == pc = "returned" /\ fn = f
SlotsReturned == pc = "returned" /\ fn \in {"tools", "assistant"}

\* the busy periods of the input: its blocking items with readable timestamps
InputBusy ==
    LET items == ScheduleItems(payload).items IN
    {<< items[i].start.dateTime, items[i].end.dateTime >> :
        i \in {j \in DOMAIN items : IsBlocking(items[j]) /\ Parses(items[j])}}

\* half-open overlap of [a0,a1) and [b0,b1)
IntervalsOverlap(a0, a1, b0, b1) == ~(a1 <= b0 \/ a0 >= b1)

\* the minute [t, t+1) lies inside some busy period
Covered(t) == \E b \in InputBusy : b[1] <= t /\ t < b[2]
\* a zero-length busy period sits at instant t
PointBusy(t) == \E b \in InputBusy : b[1] = t /\ b[2] = t

BusyInsideWindow == \A b \in InputBusy : start_iso <= b[1] /\ b[2] <= end_iso

\* [g0, g1) is a maximal stretch of the window that no busy period covers
MaximalFreeGap(g0, g1) ==
    /\ start_iso <= g0 /\ g0 < g1 /\ g1 <= end_iso
    /\ \A t \in g0..(g1 - 1) : ~Covered(t)
    /\ g0 = start_iso \/ Covered(g0 - 1)
    /\ g1 = end_iso \/ Covered(g1)

\* the same, where a zero-length busy period also ends one gap and starts the next
MaximalClearGap(g0, g1) ==
    /\ start_iso <= g0 /\ g0 < g1 /\ g1 <= end_iso
    /\ \A t \in g0..(g1 - 1) : ~Covered(t)
    /\ \A t \in (g0 + 1)..(g1 - 1) : ~PointBusy(t)
    /\ g0 = start_iso \/ Covered(g0 - 1) \/ PointBusy(g0)
    /\ g1 = end_iso \/ Covered(g1) \/ PointBusy(g1)

SlotStarts == {free_slots[i].start : i \in DOMAIN free_slots}

----------------------------------------------------------------------------
(* C1 - C5 : the free-slot generator, checked under Spec.                  *)

\* C1: for every list of busy periods (also periods reaching or lying outside the
\* window) and every required_min >= 1, each returned slot lies inside
\* [start_iso, end_iso] and overlaps no busy period of the input.
C1_SlotsInsideWindowClearOfBusy ==
    (SlotsReturned /\ required_min >= 1) =>
        \A i \in DOMAIN free_slots :
            /\ start_iso <= free_slots[i].start
            /\ free_slots[i].end <= end_iso
            /\ \A b \in InputBusy :
                  ~IntervalsOverlap(free_slots[i].start, free_slots[i].end, b[1], b[2])

\* C2: with no busy period, the result is the single slot
\* [start_iso, start_iso + required_min] when required_min is at most the window
\* length, and the empty list when it is longer.
C2_EmptyBusyOneSlotOrNone ==
    (SlotsReturned /\ InputBusy = {}) =>
        IF required_min <= end_iso - start_iso
        THEN /\ Len(free_slots) = 1
             /\ free_slots[1].start = start_iso
             /\ free_slots[1].end = start_iso + required_min
        ELSE free_slots = << >>

C2_Witness ==
    /\ Returned("tools") /\ InputBusy = {}
    /\ required_min = end_iso - start_iso
    /\ Len(free_slots) = 1

\* C3: when the busy periods together cover [start_iso, end_iso), the result is
\* empty, whatever other busy periods the list holds.
C3_CoveredWindowNoSlots ==
    (SlotsReturned /\ required_min >= 1
        /\ \A t \in start_iso..(end_iso - 1) : Covered(t)) =>
        free_slots = << >>

\* C4: every returned slot is exactly required_min long and carries
\* duration_min = required_min.
C4_SlotLengthIsRequiredMin ==
    SlotsReturned =>
        \A i \in DOMAIN free_slots :
            /\ free_slots[i].end - free_slots[i].start = required_min
            /\ free_slots[i].duration_min = required_min

\* a slot cut from a gap before a busy period that is longer than the slot,
\* followed by a second slot
C4_Witness ==
    /\ Returned("tools") /\ required_min >= 1
    /\ Len(free_slots) = 2
    /\ free_slots[1].maxEnd > free_slots[1].end
    /\ free_slots[2].maxEnd = end_iso

\* C5 as stated: with the busy periods inside the window, the slots are, one for
\* one, the maximal free gaps of the window at least required_min long, each slot
\* starting where its gap starts.
C5_OneSlotPerMaximalFreeGap ==
    (SlotsReturned /\ BusyInsideWindow /\ required_min >= 1) =>
        /\ SlotStarts = {g0 \in Times : \E g1 \in Times :
                            MaximalFreeGap(g0, g1) /\ g1 - g0 >= required_min}
        /\ Len(free_slots) = Cardinality(SlotStarts)

\* C5 amended: the same, where a zero-length busy period inside a free stretch
\* splits it into two gaps.
C5_OneSlotPerClearGap ==
    (SlotsReturned /\ BusyInsideWindow) =>
        /\ SlotStarts = {g0 \in Times : \E g1 \in Times :
                            MaximalClearGap(g0, g1) /\ g1 - g0 >= required_min}
        /\ Len(free_slots) = Cardinality(SlotStarts)

\* two busy periods leave a gap too short, and a trailing gap with room for two slots
C5_Witness ==
    /\ Returned("tools") /\ BusyInsideWindow
    /\ required_min = 1
    /\ InputBusy = {<< start_iso, start_iso + 1 >>}
    /\ Len(free_slots) = 1
    /\ free_slots[1].start = start_iso + 1
    /\ end_iso - free_slots[1].start >= 2 * required_min

----------------------------------------------------------------------------
(* C6 - C7 : the conflict check, checked under SpecCheck.                  *)

CheckReturned == pc = "returned" /\ fn = "check" /\ check_result.error = ""
end_dt == start_dt + duration_min

\* the periods of the reported conflicts, in the order reported
ConflictPeriods ==
    [i \in DOMAIN check_result.conflicts |->
        << check_result.conflicts[i].start.dateTime,
           check_result.conflicts[i].end.dateTime >>]

\* the periods of the blocking items the claim's test selects, in input order
ExpectedConflictItems ==
    SelectSeq(ScheduleItems(payload).items,
              LAMBDA it : IsBlocking(it) /\ Parses(it)
                  /\ ~(end_dt <= it.start.dateTime \/ start_dt >= it.end.dateTime))

\* C6: the conflicts list holds exactly the blocking items (b0,b1) with
\* NOT (end <= b0 OR start >= b1), in the order of the schedule items, and
\* is_available is true exactly when the list is empty.
C6_ConflictsAreTheOverlappingItems ==
    CheckReturned =>
        /\ ConflictPeriods =
              [i \in DOMAIN ExpectedConflictItems |->
                  << ExpectedConflictItems[i].start.dateTime,
                     ExpectedConflictItems[i].end.dateTime >>]
        /\ check_result.is_available <=> (check_result.conflicts = << >>)

\* two different items conflict and are reported in input order, later start first
C6_Witness ==
    /\ CheckReturned /\ duration_min >= 1
    /\ Len(check_result.conflicts) = 2
    /\ ConflictPeriods[1][1] > ConflictPeriods[2][1]
    /\ ~check_result.is_available

\* C7: an item whose start equals the proposed end, or whose end equals the
\* proposed start, is not reported as a conflict.
C7_TouchingIsNoConflict ==
    CheckReturned =>
        LET items == ScheduleItems(payload).items
            touching == {i \in DOMAIN items :
                            \/ items[i].start.dateTime = end_dt
                            \/ items[i].end.dateTime = start_dt}
        IN /\ \A i \in touching :
                 \A j \in DOMAIN check_result.conflicts :
                     ConflictPeriods[j] # << items[i].start.dateTime, items[i].end.dateTime >>
           /\ touching = DOMAIN items => check_result.is_available

\* one busy period ends where the proposed interval starts, another starts where it ends
C7_Witness ==
    /\ CheckReturned /\ duration_min >= 1
    /\ \E b0 \in Times, b1 \in Times :
          /\ b0 < start_dt /\ b1 > end_dt
          /\ ScheduleItems(payload).items =
                << Item("busy", Timestamp(b0), Timestamp(start_dt)),
                   Item("busy", Timestamp(end_dt), Timestamp(b1)) >>
    /\ check_result.is_available
    /\ check_result.conflicts = << >>

----------------------------------------------------------------------------
(* C8 - C10 : statuses, malformed items and payload shapes, under SpecItems. *)

\* the spellings, among the statuses of the model, that read busy, oof or
\* tentative when compared without regard to case
BlockingSpellings == {"busy", "BUSY", "oof", "tentative", "Tentative"}

Count(seq, x) == Cardinality({i \in DOMAIN seq : seq[i] = x})
PeriodOf(item) == << item.start.dateTime, item.end.dateTime >>

\* the schedule items of the payload whose status blocks, in input order
BlockingItems ==
    SelectSeq(ScheduleItems(payload).items, LAMBDA it : it.status \in BlockingSpellings)
\* the same items, each with its status replaced by "busy"
BlockingItemsAsBusy ==
    [i \in DOMAIN BlockingItems |->
        Item("busy", BlockingItems[i].start, BlockingItems[i].end)]

\* busy_periods holds the periods of the readable items of `items`, each as often
SameBusyPeriods(items) ==
    LET readable == SelectSeq(items, Parses) IN
    /\ Len(busy_periods) = Len(readable)
    /\ \A i \in DOMAIN readable :
          Count(busy_periods, PeriodOf(readable[i])) =
              Cardinality({j \in DOMAIN readable : PeriodOf(readable[j]) = PeriodOf(readable[i])})

\* C8: an item blocks time iff its status reads busy, oof or tentative without
\* regard to case; items of any other, missing or null status change neither the
\* free slots nor the conflicts, and which of the three statuses a blocking item
\* carries does not change the free slots.
C8_OnlyBlockingStatusesCount ==
    /\ Returned("tools") =>
          /\ SameBusyPeriods(BlockingItems)
          /\ free_slots = ToolsFreeSlots(PayloadOf(BlockingItemsAsBusy),
                              start_iso, end_iso, required_min).free_slots
    /\ Returned("assistant") =>
          /\ SameBusyPeriods(BlockingItems)
          /\ free_slots = AssistantFreeSlots(PayloadOf(BlockingItemsAsBusy),
                              start_iso, end_iso, required_min).free_slots
    /\ (pc = "returned" /\ fn = "check" /\ fetch = "ok"
           /\ ~ScheduleItems(payload).raised) =>
          check_result = CheckSpecificTimeAvailability(TRUE, PayloadOf(BlockingItems),
                              start_dt, duration_min)

\* a "Tentative" period at the window start and an item of a non-blocking status
\* with an unreadable timestamp: the only slot starts where the period ends
C8_Witness ==
    /\ Returned("tools")
    /\ LET items == ScheduleItems(payload).items IN
          /\ Len(items) = 2
          /\ \E i \in DOMAIN items :
                /\ items[i].status = "Tentative"
                /\ Parses(items[i]) /\ PeriodOf(items[i]) = << start_iso, start_iso + 1 >>
          /\ \E i \in DOMAIN items :
                items[i].status \in {"free", Missing, Null} /\ ~Parses(items[i])
    /\ Len(free_slots) = 1
    /\ free_slots[1].start = start_iso + 1

\* C9: when exactly one blocking item has an unreadable start or end and the
\* other items are readable, the function returns (raises nothing) the free slots
\* of the payload without that item; in tools.py and in meeting_assistant.py.
C9_MalformedItemSkipped ==
    LET items == ScheduleItems(payload).items
        bad == {i \in DOMAIN items :
                   items[i].status \in BlockingSpellings /\ ~Parses(items[i])}
        others == SelectSeq(items, Parses)
    IN (fn \in {"tools", "assistant"} /\ pc # "ready"
           /\ Cardinality(bad) = 1 /\ Len(others) = Len(items) - 1) =>
          /\ pc = "returned"
          /\ fn = "tools" =>
                free_slots = ToolsFreeSlots(PayloadOf(others),
                                 start_iso, end_iso, required_min).free_slots
          /\ fn = "assistant" =>
                free_slots = AssistantFreeSlots(PayloadOf(others),
                                 start_iso, end_iso, required_min).free_slots

\* C10: a payload with no "value" key, with an empty "value" list, or whose first
\* schedule has no "scheduleItems" gives an empty busy list without failing, and
\* the result of an explicitly empty list of schedule items.
C10_EmptyShapesAreEmptySchedules ==
    (payload \in {PayloadNoValue, PayloadEmptyValue, PayloadNoItems} /\ pc # "ready") =>
        /\ pc = "returned"
        /\ fn = "tools" =>
              /\ busy_periods = << >>
              /\ free_slots = ToolsFreeSlots(PayloadOf(<< >>),
                                  start_iso, end_iso, required_min).free_slots
              /\ Len(free_slots) = 1 /\ free_slots[1].start = start_iso
        /\ fn = "assistant" =>
              /\ busy_periods = << >>
              /\ free_slots = AssistantFreeSlots(PayloadOf(<< >>),
                                  start_iso, end_iso, required_min).free_slots
              /\ Len(free_slots) = 1 /\ free_slots[1].start = start_iso
        /\ (fn = "check" /\ fetch = "ok") =>
              check_result = [error |-> "", is_available |-> TRUE, conflicts |-> << >>]

\* the first schedule has no "scheduleItems" key and the whole window is free
C10_Witness ==
    /\ payload = PayloadNoItems
    /\ Returned("tools")
    /\ Len(free_slots) = 1
    /\ free_slots[1].end = start_iso + required_min

----------------------------------------------------------------------------
(* C13 : the generator's guard on required_min, checked under Spec.        *)

\* C13: called with required_min < 1, _free_slots_from_schedule raises an
\* invalid-duration error and returns no slot.
C13_NonPositiveDurationRejected ==
    (fn \in {"tools", "assistant"} /\ pc # "ready" /\ required_min < 1) =>
        pc = "raised" /\ free_slots = << >>

----------------------------------------------------------------------------
(* The tool operations and the Microsoft Graph calls they make.            *)
(* Instants of this part are minutes since midnight of the requested day.  *)

WORKING_START_HOUR == 9
WORKING_END_HOUR == 18
MIN_DURATION == 15
MAX_DURATION == 240
LAST_HOUR == 23

\* the date strings of the model
PlainDate == "2024-01-15"
DateWithTime == "2024-01-15T10:30:00"
BasicDate == "20240115"
DateStrings == {PlainDate, DateWithTime, BasicDate, "Tomorrow", "next monday"}

\* 'T' in date_str
ContainsT(date_str) == date_str \in {DateWithTime, "Tomorrow"}
\* dp.isoparse(date_str) succeeds
IsoparseAccepts(date_str) == date_str \in {PlainDate, DateWithTime, BasicDate}
\* datetime.strptime(date_str, "%Y-%m-%d") succeeds
StrptimeAccepts(date_str) == date_str = PlainDate

\* the "HH:MM" strings of the model and the minute each one names
ClockMinute(start_time) ==
    CASE start_time = "09:00" -> 540
      [] start_time = "09:30" -> 570
      [] start_time = "10:00" -> 600
      [] start_time = "17:45" -> 1065
      [] OTHER -> 0
ClockStrings == {"09:00", "09:30", "10:00", "17:45"}

\* dp.isoparse(f"{date}T{start_time}")
DateTimeParses(date_str, start_time) ==
    date_str = PlainDate /\ start_time \in ClockStrings

\* a request sent to Microsoft Graph
Request(name, s, e, subject, attendees, transaction_id) ==
    [request |-> name, start |-> s, end |-> e, subject |-> subject,
     attendees |-> attendees, transactionId |-> transaction_id]

\* an event of the organizer's calendar
Event(subject, s, e, attendees, transaction_id) ==
    [subject |-> subject, start |-> s, end |-> e, attendees |-> attendees,
     transactionId |-> transaction_id]

\* the outcomes of one remote call: the token is refused, the request is sent
\* and fails (HTTP error or timeout), or the request is answered
RemoteOutcomes == {"ok", "token_fails", "request_fails"}
\* an event creation may also be answered without a Teams join link
EventOutcomes == RemoteOutcomes \cup {"ok_no_join_url"}

\* what the remote side does during one tool call: the outcome of the schedule
\* fetch, of the event creation and of the standalone meeting creation, and the
\* value uuid4() draws
Net(schedule, event, meeting) ==
    [schedule |-> schedule, event |-> event, meeting |-> meeting, uuid4 |-> 0]

NoError == << >>

\* the getSchedule answer of Graph: one busy item per event that meets the window
RECURSIVE ScheduleItemsOf(_, _, _)
ScheduleItemsOf(cal, s, e) ==
    IF cal = << >> THEN << >>
    ELSE LET ev == Head(cal)
             rest == ScheduleItemsOf(Tail(cal), s, e)
         IN IF ev.start < e /\ ev.end > s
            THEN << Item("busy", Timestamp(ev.start), Timestamp(ev.end)) >> \o rest
            ELSE rest

\* ms_graph_service.py get_schedule : raises when the token or the request fails
GraphGetSchedule(net, cal, s, e) ==
    CASE net.schedule = "token_fails" ->
             [raised |-> TRUE, error |-> "token acquisition failed",
              payload |-> PayloadNoValue, sent |-> << >>]
      [] net.schedule = "request_fails" ->
             [raised |-> TRUE, error |-> "getSchedule request failed",
              payload |-> PayloadNoValue,
              sent |-> << Request("getSchedule", s, e, "", << >>, << >>) >>]
      [] OTHER ->
             [raised |-> FALSE, error |-> "",
              payload |-> PayloadOf(ScheduleItemsOf(cal, s, e)),
              sent |-> << Request("getSchedule", s, e, "", << >>, << >>) >>]

\* variant: a failure is raised to the caller, as ms_graph_service.py does
AssistantGetScheduleRaising(net, cal, s, e) == GraphGetSchedule(net, cal, s, e)

\* meeting_assistant.py get_schedule : every failure is logged and answered with
\* {"value": [{"scheduleItems": []}]}
AssistantGetSchedule(net, cal, s, e) ==
    LET r == GraphGetSchedule(net, cal, s, e)
    IN IF r.raised
       THEN [raised |-> FALSE, error |-> "", payload |-> PayloadOf(<< >>),
             sent |-> r.sent]
       ELSE r

\* variant: the upper limit is not applied
ClampDurationNoCap(d) == Max(MIN_DURATION, d)

\* duration_min = max(15, min(240, duration_min))
ClampDuration(d) == Max(MIN_DURATION, Min(MAX_DURATION, d))

\* dt.time(hour=h) and time.replace(hour=h) accept 0..23
ValidHour(h) == h \in 0..LAST_HOUR

WindowRaised(msg) == [raised |-> TRUE, error |-> msg, start_iso |-> 0, end_iso |-> 0]

\* variant: the date is not parsed, the window is that of the current day
ToolsIsoDayWindowNoParse(date_str, start_hour, end_hour) ==
    IF ~ValidHour(start_hour) \/ ~ValidHour(end_hour)
    THEN WindowRaised("hour must be in 0..23")
    ELSE [raised |-> FALSE, error |-> "",
          start_iso |-> start_hour * 60,
          end_iso |-> end_hour * 60]

\* tools.py _iso_day_window : no try/except
ToolsIsoDayWindow(date_str, start_hour, end_hour) ==
    IF ~IsoparseAccepts(date_str) THEN WindowRaised("invalid date")
    ELSE IF ~ValidHour(start_hour) \/ ~ValidHour(end_hour)
         THEN WindowRaised("hour must be in 0..23")
         ELSE [raised |-> FALSE, error |-> "",
               start_iso |-> start_hour * 60,
               end_iso |-> end_hour * 60]

\* meeting_assistant.py lines 113-116 : isoparse for a string with a 'T',
\* strptime otherwise
AssistantDateParses(date_str) ==
    IF ContainsT(date_str) THEN IsoparseAccepts(date_str) ELSE StrptimeAccepts(date_str)

\* meeting_assistant.py _iso_day_window : every exception becomes
\* ValueError("Invalid date format")
AssistantIsoDayWindow(date_str, start_hour, end_hour) ==
    IF ~AssistantDateParses(date_str) \/ ~ValidHour(start_hour) \/ ~ValidHour(end_hour)
    THEN WindowRaised("Invalid date format")
    ELSE [raised |-> FALSE, error |-> "",
          start_iso |-> start_hour * 60,
          end_iso |-> end_hour * 60]

\* what one tool call did: the result it returned, the requests it sent to
\* Graph, the required_min of each call of _free_slots_from_schedule, the hours
\* it gave to _iso_day_window, the interval it proposed, the calendar it left,
\* and whether an exception left the tool
Done(result, sent, gen, hours, proposed, cal) ==
    [result |-> result, sent |-> sent, gen |-> gen, hours |-> hours,
     proposed |-> proposed, calendar |-> cal, raised |-> FALSE]

\* the result of a tool; a field the returned dict does not carry has its
\* empty value (error: NoError)
EmptyResult ==
    [error |-> NoError, available_slots |-> << >>, is_available |-> FALSE,
     conflicts |-> << >>, success |-> FALSE, teams_join_url |-> Null]

SlotsResult(slots) == [EmptyResult EXCEPT !.available_slots = slots]

\* tools.py list_available_slots, the except branch
ListFailed(msg) ==
    [EmptyResult EXCEPT !.error = << "Failed to retrieve schedule", msg >>]

\* variant: a failed fetch is read as an empty schedule
ListAvailableSlotsFetchSwallowed(args, net, cal) ==
    LET d == ClampDuration(args.duration_min)
        working_start == Max(0, Min(LAST_HOUR, args.working_start))
        working_end == Max(working_start + 1, Min(LAST_HOUR, args.working_end))
        hours == << << working_start, working_end >> >>
        win == ToolsIsoDayWindow(args.date, working_start, working_end)
        fetched == AssistantGetSchedule(net, cal, win.start_iso, win.end_iso)
        slots == ToolsFreeSlots(fetched.payload, win.start_iso, win.end_iso, d)
    IN IF win.raised THEN Done(ListFailed(win.error), << >>, << >>, hours, << >>, cal)
       ELSE IF slots.raised
            THEN Done(ListFailed("schedule item"), fetched.sent, << d >>, hours,
                           << >>, cal)
            ELSE Done(SlotsResult(slots.free_slots), fetched.sent, << d >>, hours,
                      << >>, cal)

\* tools.py list_available_slots(date, duration_min, working_start, working_end)
ListAvailableSlots(args, net, cal) ==
    LET d == ClampDuration(args.duration_min)
        working_start == Max(0, Min(LAST_HOUR, args.working_start))
        working_end == Max(working_start + 1, Min(LAST_HOUR, args.working_end))
        hours == << << working_start, working_end >> >>
        win == ToolsIsoDayWindow(args.date, working_start, working_end)
        fetched == GraphGetSchedule(net, cal, win.start_iso, win.end_iso)
        slots == ToolsFreeSlots(fetched.payload, win.start_iso, win.end_iso, d)
    IN IF win.raised THEN Done(ListFailed(win.error), << >>, << >>, hours, << >>, cal)
       ELSE IF fetched.raised
            THEN Done(ListFailed(fetched.error), fetched.sent, << >>, hours, << >>, cal)
            ELSE IF slots.raised
                 THEN Done(ListFailed("schedule item"), fetched.sent, << d >>, hours,
                           << >>, cal)
                 ELSE Done(SlotsResult(slots.free_slots), fetched.sent, << d >>, hours,
                           << >>, cal)

\* meeting_assistant.py : the except branch of the two listing tools, a sentence
\* that carries str(e)
AssistantListFailed(prefix, msg) == [EmptyResult EXCEPT !.error = << prefix, msg >>]

\* lines 268-289 and 296-315 : the body the two listing tools share; every
\* exception raised inside it ends in the except branch
AssistantListing(prefix, args, net, cal) ==
    LET d == ClampDuration(args.duration_min)
        hours == << << WORKING_START_HOUR, WORKING_END_HOUR >> >>
        win == AssistantIsoDayWindow(args.date, WORKING_START_HOUR, WORKING_END_HOUR)
        fetched == AssistantGetSchedule(net, cal, win.start_iso, win.end_iso)
        slots == AssistantFreeSlots(fetched.payload, win.start_iso, win.end_iso, d)
    IN IF win.raised
       THEN Done(AssistantListFailed(prefix, win.error), << >>, << >>, hours, << >>, cal)
       ELSE IF fetched.raised
            THEN Done(AssistantListFailed(prefix, fetched.error), fetched.sent,
                      << >>, hours, << >>, cal)
            ELSE IF slots.raised
                 THEN Done(AssistantListFailed(prefix, "schedule item"), fetched.sent,
                           << d >>, hours, << >>, cal)
                 ELSE Done(SlotsResult(slots.free_slots), fetched.sent, << d >>,
                           hours, << >>, cal)

\* meeting_assistant.py find_free_time_tool(details)
FindFreeTimeTool(args, net, cal) ==
    AssistantListing("An error occurred while trying to find free time", args, net, cal)

\* meeting_assistant.py list_available_slots_tool(details)
ListAvailableSlotsTool(args, net, cal) ==
    AssistantListing("Failed to retrieve available slots", args, net, cal)

\* tools.py check_specific_time_availability(date, start_time, duration_min) as a
\* tool: the interval is built from the arguments and the schedule is fetched
\* for exactly that interval
CheckAvailabilityTool(args, net, cal) ==
    LET s == ClockMinute(args.start_time)
        e == s + args.duration_min
        fetched == GraphGetSchedule(net, cal, s, e)
        r == CheckSpecificTimeAvailability(~fetched.raised, fetched.payload, s,
                                           args.duration_min)
    IN IF ~DateTimeParses(args.date, args.start_time)
       THEN Done([EmptyResult EXCEPT !.error = << CheckFailed.error, "invalid date" >>],
                 << >>, << >>, << >>, << >>, cal)
       ELSE Done([EmptyResult EXCEPT
                     !.error = IF r.error = "" THEN NoError
                               ELSE << r.error, fetched.error >>,
                     !.is_available = r.is_available,
                     !.conflicts = r.conflicts],
                 fetched.sent, << >>, << >>, << << s, e >> >>, cal)

\* f"{meeting_title} - {customer_name}"
MeetingSubject(args) == << args.meeting_title, " - ", args.customer_name >>

\* ms_graph_service.py line 114 : uuid5 of f"{subject}|{start_iso}|{attendees}",
\* a function of the subject, the start and the attendees (one attendee: sorted()
\* leaves the list as it is)
GraphTransactionId(subject, s, e, attendees) == << "uuid5", subject, s, attendees >>

\* ms_graph_service.py create_calendar_event : raises when the token or the
\* request fails; an accepted request adds the event to the calendar
GraphCreateCalendarEvent(net, cal, subject, s, e, attendees) ==
    LET transaction_id == GraphTransactionId(subject, s, e, attendees)
        req == Request("createEvent", s, e, subject, attendees, transaction_id)
    IN CASE net.event = "token_fails" ->
                [raised |-> TRUE, error |-> "token acquisition failed",
                 sent |-> << >>, calendar |-> cal, join_url |-> Null]
         [] net.event = "request_fails" ->
                [raised |-> TRUE, error |-> "createEvent request failed",
                 sent |-> << req >>, calendar |-> cal, join_url |-> Null]
         [] OTHER ->
                [raised |-> FALSE, error |-> "", sent |-> << req >>,
                 calendar |-> Append(cal, Event(subject, s, e, attendees, transaction_id)),
                 join_url |-> IF net.event = "ok" THEN "https://teams/join" ELSE Null]

\* meeting_assistant.py line 205 : uuid4, a random value; net.uuid4 is the value
\* drawn, one that no earlier call drew
AssistantTransactionId(net) == << "uuid4", net.uuid4 >>

\* meeting_assistant.py create_calendar_event : logs and re-raises
AssistantCreateCalendarEvent(net, cal, subject, s, e, attendees) ==
    LET transaction_id == AssistantTransactionId(net)
        req == Request("createEvent", s, e, subject, attendees, transaction_id)
    IN CASE net.event = "token_fails" ->
                [raised |-> TRUE, error |-> "token acquisition failed",
                 sent |-> << >>, calendar |-> cal, join_url |-> Null]
         [] net.event = "request_fails" ->
                [raised |-> TRUE, error |-> "createEvent request failed",
                 sent |-> << req >>, calendar |-> cal, join_url |-> Null]
         [] OTHER ->
                [raised |-> FALSE, error |-> "", sent |-> << req >>,
                 calendar |-> Append(cal, Event(subject, s, e, attendees, transaction_id)),
                 join_url |-> IF net.event = "ok" THEN "https://teams/join" ELSE Null]

\* ms_graph_service.py create_online_meeting_standalone : raises on failure
CreateOnlineMeetingStandalone(net, subject, s, e) ==
    LET req == Request("createOnlineMeeting", s, e, subject, << >>, << >>)
    IN CASE net.meeting = "token_fails" ->
                [raised |-> TRUE, sent |-> << >>, join_url |-> Null]
         [] net.meeting = "request_fails" ->
                [raised |-> TRUE, sent |-> << req >>, join_url |-> Null]
         [] OTHER ->
                [raised |-> FALSE, sent |-> << req >>, join_url |-> "https://teams/meet"]

\* tools.py book_meeting_slot, the outer except branch
BookFailed(msg) == [EmptyResult EXCEPT !.error = << "Booking failed", msg >>]

Booked(join_url) == [EmptyResult EXCEPT !.success = TRUE, !.teams_join_url = join_url]

\* variant: the schedule of the proposed interval is fetched and checked first,
\* and the event is created only when nothing conflicts
BookMeetingSlotRechecking(args, net, cal) ==
    LET s == ClockMinute(args.start_time)
        e == s + args.duration_min
        subject == MeetingSubject(args)
        fetched == GraphGetSchedule(net, cal, s, e)
        r == CheckSpecificTimeAvailability(TRUE, fetched.payload, s, args.duration_min)
        created == GraphCreateCalendarEvent(net, cal, subject, s, e,
                                            << args.customer_email >>)
    IN IF ~DateTimeParses(args.date, args.start_time)
       THEN Done(BookFailed("invalid date"), << >>, << >>, << >>, << >>, cal)
       ELSE IF ~r.is_available
            THEN Done(BookFailed("conflict"), fetched.sent, << >>, << >>,
                      << << s, e >> >>, cal)
            ELSE IF created.raised
                 THEN Done(BookFailed(created.error), fetched.sent \o created.sent,
                           << >>, << >>, << << s, e >> >>, cal)
                 ELSE Done(Booked(created.join_url), fetched.sent \o created.sent,
                           << >>, << >>, << << s, e >> >>, created.calendar)

\* variant: no try/except around the standalone meeting creation, its failure
\* reaches the outer except branch
BookMeetingSlotFallbackRaises(args, net, cal) ==
    LET s == ClockMinute(args.start_time)
        e == s + args.duration_min
        subject == MeetingSubject(args)
        created == GraphCreateCalendarEvent(net, cal, subject, s, e,
                                            << args.customer_email >>)
        standalone == CreateOnlineMeetingStandalone(net, subject, s, e)
    IN IF ~DateTimeParses(args.date, args.start_time)
       THEN Done(BookFailed("invalid date"), << >>, << >>, << >>, << >>, cal)
       ELSE IF created.raised
            THEN Done(BookFailed(created.error), created.sent, << >>, << >>,
                      << << s, e >> >>, cal)
            ELSE IF created.join_url # Null
                 THEN Done(Booked(created.join_url), created.sent, << >>, << >>,
                           << << s, e >> >>, created.calendar)
                 ELSE IF standalone.raised
                      THEN Done(BookFailed("createOnlineMeeting failed"),
                                created.sent \o standalone.sent, << >>, << >>,
                                << << s, e >> >>, created.calendar)
                      ELSE Done(Booked(standalone.join_url),
                                created.sent \o standalone.sent, << >>, << >>,
                                << << s, e >> >>, created.calendar)

\* tools.py book_meeting_slot(booking)
BookMeetingSlot(args, net, cal) ==
    LET s == ClockMinute(args.start_time)
        e == s + args.duration_min
        subject == MeetingSubject(args)
        created == GraphCreateCalendarEvent(net, cal, subject, s, e,
                                            << args.customer_email >>)
        standalone == CreateOnlineMeetingStandalone(net, subject, s, e)
    IN IF ~DateTimeParses(args.date, args.start_time)
       THEN Done(BookFailed("invalid date"), << >>, << >>, << >>, << >>, cal)
       ELSE IF created.raised
            THEN Done(BookFailed(created.error), created.sent, << >>, << >>,
                      << << s, e >> >>, cal)
            ELSE IF created.join_url # Null
                 THEN Done(Booked(created.join_url), created.sent, << >>, << >>,
                           << << s, e >> >>, created.calendar)
                 ELSE Done(Booked(standalone.join_url),
                           created.sent \o standalone.sent, << >>, << >>,
                           << << s, e >> >>, created.calendar)

\* meeting_assistant.py book_meeting_advanced_tool(details); the join link is
\* looked up in the event only, and the sentence returned says whether one was found
BookMeetingAdvancedTool(args, net, cal) ==
    LET s == ClockMinute(args.start_time)
        e == s + args.duration_min
        subject == MeetingSubject(args)
        created == AssistantCreateCalendarEvent(net, cal, subject, s, e,
                                                << args.customer_email >>)
    IN IF ~DateTimeParses(args.date, args.start_time)
       THEN Done([EmptyResult EXCEPT !.error = << "Booking Failed", "invalid date" >>],
                 << >>, << >>, << >>, << >>, cal)
       ELSE IF created.raised
            THEN Done([EmptyResult EXCEPT !.error = << "Booking Failed", created.error >>],
                      created.sent, << >>, << >>, << << s, e >> >>, cal)
            ELSE Done(Booked(created.join_url), created.sent, << >>, << >>,
                      << << s, e >> >>, created.calendar)

----------------------------------------------------------------------------
(* State machine of the tool calls.                                        *)

MaxCalls == 3       \* tool calls in one conversation of SpecRace

\* no call of the generator or of the check is in progress
NoGeneratorCall ==
    /\ payload = PayloadNoValue
    /\ start_iso = 0
    /\ end_iso = 0
    /\ required_min = 0
    /\ start_dt = 0
    /\ duration_min = 0
    /\ pc = "ready"
    /\ fn = "none"
    /\ busy_periods = << >>
    /\ free_slots = << >>
    /\ fetch = "none"
    /\ check_result = NoCheck

Args(date, start_time, dur, working_start, working_end, customer) ==
    [date |-> date, start_time |-> start_time, duration_min |-> dur,
     working_start |-> working_start, working_end |-> working_end,
     meeting_title |-> "Consultation", customer_name |-> customer,
     customer_email |-> << customer, "@example.com" >>]

\* the tool returns: the call is recorded and the calendar is what it left
Complete(tool, by, args, net, out) ==
    /\ calls' = Append(calls,
           [tool |-> tool, by |-> by, args |-> args, net |-> net,
            before |-> calendar, result |-> out.result, sent |-> out.sent,
            gen |-> out.gen, hours |-> out.hours, proposed |-> out.proposed,
            raised |-> out.raised])
    /\ calendar' = out.calendar
    /\ UNCHANGED <<Inputs, pc, fn, busy_periods, free_slots, fetch, check_result,
                   ConverterVars, DaysVars>>

CallListAvailableSlots(limit, A, N) ==
    /\ Len(calls) < limit
    /\ \E args \in A, net \in N :
          Complete("list_available_slots", "A", args, net,
                   ListAvailableSlots(args, net, calendar))

CallFindFreeTimeTool(limit, A, N) ==
    /\ Len(calls) < limit
    /\ \E args \in A, net \in N :
          Complete("find_free_time_tool", "A", args, net,
                   FindFreeTimeTool(args, net, calendar))

CallListAvailableSlotsTool(limit, A, N) ==
    /\ Len(calls) < limit
    /\ \E args \in A, net \in N :
          Complete("list_available_slots_tool", "A", args, net,
                   ListAvailableSlotsTool(args, net, calendar))

CallCheckAvailabilityTool(limit, S, A, N) ==
    /\ Len(calls) < limit
    /\ \E by \in S, args \in A, net \in N :
          Complete("check_specific_time_availability", by, args, net,
                   CheckAvailabilityTool(args, net, calendar))

\* the booking of customer by: their name and their address
BookingOf(args, by) ==
    [args EXCEPT !.customer_name = by, !.customer_email = << by, "@example.com" >>]

CallBookMeetingSlot(limit, S, A, N) ==
    /\ Len(calls) < limit
    /\ \E by \in S, args \in A, net \in N :
          Complete("book_meeting_slot", by, BookingOf(args, by), net,
                   BookMeetingSlot(BookingOf(args, by), net, calendar))

\* uuid4() draws a value no earlier call drew: the number of this call
CallBookMeetingAdvancedTool(limit, S, A, N) ==
    /\ Len(calls) < limit
    /\ \E by \in S, args \in A, n \in N :
          LET net == [n EXCEPT !.uuid4 = Len(calls) + 1]
              details == BookingOf(args, by)
          IN Complete("book_meeting_advanced_tool", by, details, net,
                      BookMeetingAdvancedTool(details, net, calendar))

\* one tool call with its arguments and the remote outcomes drawn widely
OpsDurations == {-30, 0, 14, 15, 30, 240, 241, 600}
OpsHours == {-1, 0, 9, 18, 23, 24}
OpsCustomers == {"Ann"}
OpsCalendars ==
    { << >>,
      << Event("standup", 570, 600, << >>, << >>),
         Event("lunch", 720, 780, << >>, << >>) >>,
      << Event("offsite", 540, 1080, << >>, << >>) >> }

ListArgs ==
    {Args(date, "", dur, ws, we, "") :
        date \in DateStrings, dur \in OpsDurations, ws \in OpsHours, we \in OpsHours}
AssistantListArgs ==
    {Args(date, "", dur, WORKING_START_HOUR, WORKING_END_HOUR, "") :
        date \in DateStrings, dur \in OpsDurations}
CheckArgs ==
    {Args(date, start_time, dur, WORKING_START_HOUR, WORKING_END_HOUR, "") :
        date \in {PlainDate, "next monday"}, start_time \in ClockStrings,
        dur \in OpsDurations}
\* BookingRequest: duration_min is validated to lie in 15..240
BookingArgs ==
    {Args(date, start_time, dur, WORKING_START_HOUR, WORKING_END_HOUR, "") :
        date \in {PlainDate, "next monday"}, start_time \in ClockStrings,
        dur \in {30, 60}}
\* BookMeetingArgs is a TypedDict: nothing is validated
AdvancedArgs ==
    {Args(date, start_time, dur, WORKING_START_HOUR, WORKING_END_HOUR, "") :
        date \in {PlainDate, "next monday"}, start_time \in ClockStrings,
        dur \in {-30, 30, 60}}

ScheduleNets == {Net(o, "ok", "ok") : o \in RemoteOutcomes}
BookingNets == {Net("ok", ev, m) : ev \in EventOutcomes, m \in RemoteOutcomes}

InitOps ==
    /\ NoGeneratorCall
    /\ calendar \in OpsCalendars
    /\ calls = << >>
    /\ ConverterIdle
    /\ DaysIdle

NextOps ==
    \/ CallListAvailableSlots(1, ListArgs, ScheduleNets)
    \/ CallFindFreeTimeTool(1, AssistantListArgs, ScheduleNets)
    \/ CallListAvailableSlotsTool(1, AssistantListArgs, ScheduleNets)
    \/ CallCheckAvailabilityTool(1, OpsCustomers, CheckArgs, ScheduleNets)
    \/ CallBookMeetingSlot(1, OpsCustomers, BookingArgs, BookingNets)
    \/ CallBookMeetingAdvancedTool(1, OpsCustomers, AdvancedArgs, BookingNets)

\* one tool call against one of the calendars
SpecOps == InitOps /\ [][NextOps]_vars

\* a conversation of two customers about the slot at 10:00: checks and bookings
\* in any order, a creation request either accepted or failed
RaceCustomers == {"Ann", "Bob"}
RaceArgs ==
    {Args(PlainDate, "10:00", dur, WORKING_START_HOUR, WORKING_END_HOUR, "") :
        dur \in {30, 60}}
RaceNets == {Net("ok", ev, "ok") : ev \in {"ok", "request_fails"}}

InitRace ==
    /\ NoGeneratorCall
    /\ calendar = << >>
    /\ calls = << >>
    /\ ConverterIdle
    /\ DaysIdle

NextRace ==
    \/ CallCheckAvailabilityTool(MaxCalls, RaceCustomers, RaceArgs, {Net("ok", "ok", "ok")})
    \/ CallBookMeetingSlot(MaxCalls, RaceCustomers, RaceArgs, RaceNets)
    \/ CallBookMeetingAdvancedTool(MaxCalls, RaceCustomers, RaceArgs, RaceNets)

SpecRace == InitRace /\ [][NextRace]_vars

\* _free_slots_from_schedule called again with the arguments of the call that
\* has returned; that call's outcome is kept in calls
GeneratorCall(f) ==
    [tool |-> f, raised |-> pc = "raised", busy_periods |-> busy_periods,
     free_slots |-> free_slots]

RepeatToolsFreeSlots ==
    /\ pc # "ready"
    /\ fn = "tools"
    /\ calls = << >>
    /\ LET r == ToolsFreeSlots(payload, start_iso, end_iso, required_min) IN
         /\ pc' = IF r.raised THEN "raised" ELSE "returned"
         /\ busy_periods' = r.busy_periods
         /\ free_slots' = r.free_slots
    /\ calls' = << GeneratorCall("tools") >>
    /\ UNCHANGED <<Inputs, fn, fetch, check_result, calendar, ConverterVars, DaysVars>>

RepeatAssistantFreeSlots ==
    /\ pc # "ready"
    /\ fn = "assistant"
    /\ calls = << >>
    /\ LET r == AssistantFreeSlots(payload, start_iso, end_iso, required_min) IN
         /\ pc' = IF r.raised THEN "raised" ELSE "returned"
         /\ busy_periods' = r.busy_periods
         /\ free_slots' = r.free_slots
    /\ calls' = << GeneratorCall("assistant") >>
    /\ UNCHANGED <<Inputs, fn, fetch, check_result, calendar, ConverterVars, DaysVars>>

NextRepeat == Next \/ RepeatToolsFreeSlots \/ RepeatAssistantFreeSlots

\* the generator called twice in a row on one payload, window and required_min
SpecRepeat == Init /\ [][NextRepeat]_vars

\* the calls made so far
CallIndexes == 1..Len(calls)
CallsOf(tools) == {i \in CallIndexes : calls[i].tool \in tools}
ListingTools == {"list_available_slots", "find_free_time_tool", "list_available_slots_tool"}
BookingTools == {"book_meeting_slot", "book_meeting_advanced_tool"}

\* the date of call i is one its file's parser accepts
DateParsed(i) ==
    IF calls[i].tool = "list_available_slots" THEN IsoparseAccepts(calls[i].args.date)
    ELSE AssistantDateParses(calls[i].args.date)

----------------------------------------------------------------------------
(* C11, C12, C14 : the arguments of the listing operations, under SpecOps. *)

\* C11: whatever working_start and working_end list_available_slots is given,
\* the hours it hands to the day window satisfy 0 <= start_hour <= 23,
\* 0 <= end_hour <= 23 and end_hour >= start_hour + 1.
C11_WindowHoursInRange ==
    \A i \in CallsOf({"list_available_slots"}) :
        \A k \in 1..Len(calls[i].hours) :
            LET start_hour == calls[i].hours[k][1]
                end_hour == calls[i].hours[k][2]
            IN /\ 0 <= start_hour /\ start_hour <= 23
               /\ 0 <= end_hour /\ end_hour <= 23
               /\ end_hour >= start_hour + 1

\* C12: a listing operation given a date its parser rejects sends no request to
\* Graph, raises nothing, and returns a result whose error carries the
\* invalid-date message and whose slot list is empty.
C12_UnparsableDateIsAnErrorResult ==
    \A i \in CallsOf(ListingTools) :
        ~DateParsed(i) =>
            /\ calls[i].sent = << >>
            /\ ~calls[i].raised
            /\ calls[i].result.error # NoError
            /\ calls[i].result.error[2] \in {"invalid date", "Invalid date format"}
            /\ calls[i].result.available_slots = << >>

\* a date isoparse would read but strptime does not, given to a tool of
\* meeting_assistant.py, and a date nothing reads, given to list_available_slots
C12_Witness ==
    /\ \E i \in CallsOf({"list_available_slots_tool", "find_free_time_tool"}) :
          /\ calls[i].args.date = BasicDate
          /\ calls[i].result.error # NoError
          /\ calls[i].net.schedule = "ok"

\* C14: every call of _free_slots_from_schedule made by a listing operation
\* passes a required_min in 15..240.
C14_GeneratorDurationClamped ==
    \A i \in CallsOf(ListingTools) :
        \A k \in 1..Len(calls[i].gen) :
            calls[i].gen[k] >= MIN_DURATION /\ calls[i].gen[k] <= MAX_DURATION

\* a duration above the limit reached the generator as 240
C14_Witness ==
    \E i \in CallsOf(ListingTools) :
        /\ calls[i].args.duration_min > MAX_DURATION
        /\ calls[i].gen = << MAX_DURATION >>
        /\ calls[i].result.available_slots # << >>

----------------------------------------------------------------------------
(* C15 : the intervals of the operations, under SpecOps.                   *)

\* C15: every slot a listing operation returns has start <= end, and the
\* interval check_specific_time_availability proposes has start <= end.
C15_IntervalsWellOrdered ==
    \A i \in CallIndexes :
        /\ \A k \in 1..Len(calls[i].result.available_slots) :
              calls[i].result.available_slots[k].start
                  <= calls[i].result.available_slots[k].end
        /\ calls[i].tool = "check_specific_time_availability" =>
              \A k \in 1..Len(calls[i].proposed) :
                  calls[i].proposed[k][1] <= calls[i].proposed[k][2]

----------------------------------------------------------------------------
(* C16, C17 : failures of the remote calls, under SpecOps.                 *)

\* call i got as far as its schedule fetch
FetchAttempted(i) ==
    /\ DateParsed(i)
    /\ \A k \in 1..Len(calls[i].hours) :
          ValidHour(calls[i].hours[k][1]) /\ ValidHour(calls[i].hours[k][2])

\* what the listing operation of call i returns for the same arguments when the
\* fetch succeeds and the organizer has no event
ResultForEmptySchedule(i) ==
    LET args == calls[i].args
        ok == Net("ok", "ok", "ok")
    IN CASE calls[i].tool = "list_available_slots" ->
                ListAvailableSlots(args, ok, << >>).result
         [] calls[i].tool = "find_free_time_tool" ->
                FindFreeTimeTool(args, ok, << >>).result
         [] OTHER -> ListAvailableSlotsTool(args, ok, << >>).result

\* C16 as stated: whenever the schedule fetch of a listing operation fails, the
\* operation returns what it returns for an empty schedule: no error, and the
\* slots of a free day.
C16_FetchFailureIsFullAvailability ==
    \A i \in CallsOf(ListingTools) :
        (FetchAttempted(i) /\ calls[i].net.schedule # "ok") =>
            /\ calls[i].result.error = NoError
            /\ calls[i].result.available_slots # << >>
            /\ calls[i].result = ResultForEmptySchedule(i)

\* C16 amended: a failed fetch makes find_free_time_tool and
\* list_available_slots_tool return what they return for an empty schedule (no
\* error, the slots of a free day), and makes list_available_slots return an
\* error result with an empty slot list.
C16_FetchFailurePerFile ==
    \A i \in CallsOf(ListingTools) :
        (FetchAttempted(i) /\ calls[i].net.schedule # "ok") =>
            IF calls[i].tool = "list_available_slots"
            THEN /\ calls[i].result.error # NoError
                 /\ calls[i].result.available_slots = << >>
            ELSE /\ calls[i].result.error = NoError
                 /\ calls[i].result.available_slots # << >>
                 /\ calls[i].result = ResultForEmptySchedule(i)

\* the organizer is busy the whole day, the fetch fails, and find_free_time_tool
\* offers the slot at 09:00
C16_Witness ==
    \E i \in CallsOf({"find_free_time_tool"}) :
        /\ calls[i].net.schedule = "request_fails"
        /\ \E k \in 1..Len(calls[i].before) :
              calls[i].before[k].start = 540 /\ calls[i].before[k].end = 1080
        /\ Len(calls[i].result.available_slots) = 1
        /\ calls[i].result.available_slots[1].start = 540

ToolsOperations ==
    {"list_available_slots", "check_specific_time_availability", "book_meeting_slot"}

\* the remote call that call i depends on was reached and failed
ScheduleFetchFailed(i) ==
    /\ calls[i].net.schedule # "ok"
    /\ IF calls[i].tool = "list_available_slots" THEN FetchAttempted(i)
       ELSE DateTimeParses(calls[i].args.date, calls[i].args.start_time)
EventCreationFailed(i) ==
    /\ calls[i].net.event \in {"token_fails", "request_fails"}
    /\ DateTimeParses(calls[i].args.date, calls[i].args.start_time)
StandaloneCreationFailed(i) ==
    /\ calls[i].net.event = "ok_no_join_url"
    /\ calls[i].net.meeting # "ok"
    /\ DateTimeParses(calls[i].args.date, calls[i].args.start_time)

\* C17 as stated: no exception leaves list_available_slots,
\* check_specific_time_availability or book_meeting_slot, and whenever a remote
\* call of theirs fails (the standalone meeting creation included) the result
\* carries an error, book_meeting_slot's with success false.
C17_RemoteFailureIsAnErrorResult ==
    \A i \in CallsOf(ToolsOperations) :
        /\ ~calls[i].raised
        /\ (calls[i].tool = "book_meeting_slot"
               /\ (EventCreationFailed(i) \/ StandaloneCreationFailed(i))) =>
              calls[i].result.error # NoError /\ ~calls[i].result.success
        /\ (calls[i].tool # "book_meeting_slot" /\ ScheduleFetchFailed(i)) =>
              calls[i].result.error # NoError

\* C17 amended: no exception leaves the three operations; a failed token
\* acquisition, schedule fetch or event creation gives a result with an error
\* (book_meeting_slot's with success false); a failed standalone meeting
\* creation is swallowed: the booking result has success true, no error and no
\* join link.
C17_RemoteFailureExceptStandalone ==
    \A i \in CallsOf(ToolsOperations) :
        /\ ~calls[i].raised
        /\ (calls[i].tool = "book_meeting_slot" /\ EventCreationFailed(i)) =>
              calls[i].result.error # NoError /\ ~calls[i].result.success
        /\ (calls[i].tool = "book_meeting_slot" /\ StandaloneCreationFailed(i)) =>
              /\ calls[i].result.error = NoError
              /\ calls[i].result.success
              /\ calls[i].result.teams_join_url = Null
        /\ (calls[i].tool # "book_meeting_slot" /\ ScheduleFetchFailed(i)) =>
              calls[i].result.error # NoError

\* the fetch of list_available_slots timed out and the result says so
C17_Witness ==
    \E i \in CallsOf({"list_available_slots"}) :
        /\ calls[i].net.schedule = "request_fails"
        /\ Len(calls[i].sent) = 1
        /\ calls[i].result.error = << "Failed to retrieve schedule",
                                      "getSchedule request failed" >>

----------------------------------------------------------------------------
(* C18 : the booking operations, under SpecOps.                            *)

\* an event of cal overlaps the interval [s, e]
CalendarConflicts(cal, s, e) ==
    \E k \in 1..Len(cal) : Overlaps(s, e, cal[k].start, cal[k].end)

\* C18: a booking operation sends its event creation only after it has fetched
\* the schedule of the proposed interval, and only when no event of the
\* organizer overlaps that interval.
C18_BookingChecksConflictsFirst ==
    \A i \in CallsOf(BookingTools) :
        \A k \in 1..Len(calls[i].sent) :
            calls[i].sent[k].request = "createEvent" =>
                /\ \E j \in 1..(k - 1) : calls[i].sent[j].request = "getSchedule"
                /\ ~CalendarConflicts(calls[i].before, calls[i].sent[k].start,
                                      calls[i].sent[k].end)

----------------------------------------------------------------------------
(* C19, C20 : two customers and one slot, under SpecRace.                  *)

\* C19: book_meeting_slot never looks at the calendar: every call sends the
\* creation of the proposed interval as its first and only kind of calendar
\* request, fetches no schedule, and an accepted creation is reported as a
\* success, whatever events the calendar holds and whatever an earlier check
\* reported.
C19_BookingNeverRechecks ==
    \A i \in CallsOf({"book_meeting_slot"}) :
        /\ Len(calls[i].sent) >= 1
        /\ calls[i].sent[1].request = "createEvent"
        /\ << calls[i].sent[1].start, calls[i].sent[1].end >> = calls[i].proposed[1]
        /\ \A k \in 1..Len(calls[i].sent) : calls[i].sent[k].request # "getSchedule"
        /\ calls[i].net.event = "ok" => calls[i].result.success

\* the race: Ann's check reports [10:00, 10:30] available, Bob's booking creates
\* an event at 10:00, and Ann's book_meeting_slot for [10:00, 10:30] still sends
\* its creation, which is accepted: the calendar holds two overlapping events
C19_Witness ==
    /\ Len(calls) = 3
    /\ calls[1].tool = "check_specific_time_availability"
    /\ calls[1].by = "Ann"
    /\ calls[1].proposed = << << 600, 630 >> >>
    /\ calls[1].result.is_available
    /\ calls[2].tool \in BookingTools
    /\ calls[2].by = "Bob"
    /\ calls[2].result.success
    /\ calls[3].tool = "book_meeting_slot"
    /\ calls[3].by = "Ann"
    /\ calls[3].proposed = << << 600, 630 >> >>
    /\ CalendarConflicts(calls[3].before, 600, 630)
    /\ calls[3].sent[1].request = "createEvent"
    /\ calls[3].result.success
    /\ Len(calendar) = 2
    /\ Overlaps(calendar[1].start, calendar[1].end, calendar[2].start, calendar[2].end)

\* the creation requests sent so far, each with the file whose
\* create_calendar_event sent it
CreationRequests ==
    {<< i, k >> \in CallIndexes \X (1..2) :
        k <= Len(calls[i].sent) /\ calls[i].sent[k].request = "createEvent"}
SameBooking(r1, r2) ==
    /\ r1.subject = r2.subject
    /\ r1.start = r2.start
    /\ r1.end = r2.end
    /\ r1.attendees = r2.attendees

\* C20: two creation requests sent by the same create_calendar_event carry the
\* same transactionId exactly when they are the same booking (same subject,
\* start, end and attendees).
C20_TransactionIdIdentifiesBooking ==
    \A p \in CreationRequests, q \in CreationRequests :
        LET r1 == calls[p[1]].sent[p[2]]
            r2 == calls[q[1]].sent[q[2]]
        IN (p # q /\ calls[p[1]].tool = calls[q[1]].tool) =>
              (SameBooking(r1, r2) <=> r1.transactionId = r2.transactionId)

----------------------------------------------------------------------------
(* C22 - C24, C26 : order, sweep and the two files, checked under Spec.    *)

\* the periods of the schedule items of the payload, in input order
InputPeriods ==
    LET items == ScheduleItems(payload).items
    IN [i \in DOMAIN items |-> PeriodOf(items[i])]

\* C22: the returned slots are in chronological order whatever the order of the
\* schedule items: slot starts strictly increase and each slot ends no later
\* than the next one starts.
C22_SlotsChronological ==
    SlotsReturned =>
        \A i \in 1..(Len(free_slots) - 1) :
            /\ free_slots[i].start < free_slots[i + 1].start
            /\ free_slots[i].end <= free_slots[i + 1].start

\* the later busy period comes first in the payload, and two slots are returned
C22_Witness ==
    /\ Returned("tools")
    /\ Len(InputPeriods) = 2
    /\ InputPeriods[1][1] > InputPeriods[2][1]
    /\ Len(free_slots) = 2
    /\ required_min >= 1

\* C23: the busy list is ordered by start ascending, periods with equal start
\* keep their input order, and the list is a permutation of the periods of the
\* blocking items of the input.
C23_BusyListStableSortedPermutation ==
    SlotsReturned =>
        LET n == Len(InputPeriods) IN
        /\ Len(busy_periods) = n
        /\ \A i \in 1..(n - 1) : busy_periods[i][1] <= busy_periods[i + 1][1]
        /\ \E f \in [1..n -> 1..n] :
              /\ \A i \in 1..n, j \in 1..n : i # j => f[i] # f[j]
              /\ \A i \in 1..n : busy_periods[i] = InputPeriods[f[i]]
              /\ \A i \in 1..n, j \in 1..n :
                    (i < j /\ busy_periods[i][1] = busy_periods[j][1]) => f[i] < f[j]

\* two periods with the same start: the longer one came first and stays first
C23_Witness ==
    /\ Returned("tools")
    /\ Len(busy_periods) = 2
    /\ busy_periods[1][1] = busy_periods[2][1]
    /\ busy_periods[1][2] > busy_periods[2][2]
    /\ InputPeriods = busy_periods

\* the loop state after the first k busy periods, in the file that was called
SweepAfter(k) ==
    IF fn = "tools" THEN ToolsSweep(busy_periods, k, start_iso, required_min)
    ELSE AssistantSweep(busy_periods, k, start_iso, required_min)

RECURSIVE MaxEnd(_, _)
MaxEnd(k, floor) ==
    IF k = 0 THEN floor
    ELSE LET m == MaxEnd(k - 1, floor)
         IN IF busy_periods[k][2] > m THEN busy_periods[k][2] ELSE m

\* C24: after each busy period the cursor is the maximum of the window start and
\* the ends of the periods processed so far (so it never decreases and is never
\* before the window start); no slot overlaps a busy period; every slot starts
\* at the window start or at the end of a busy period.
C24_CursorIsRunningMaximum ==
    SlotsReturned =>
        /\ \A k \in 0..Len(busy_periods) :
              /\ SweepAfter(k).current_time = MaxEnd(k, start_iso)
              /\ SweepAfter(k).current_time >= start_iso
              /\ k >= 1 => SweepAfter(k).current_time >= SweepAfter(k - 1).current_time
        /\ \A i \in DOMAIN free_slots :
              /\ \/ free_slots[i].start = start_iso
                 \/ \E j \in DOMAIN busy_periods : free_slots[i].start = busy_periods[j][2]
              /\ \A j \in DOMAIN busy_periods :
                    ~IntervalsOverlap(free_slots[i].start, free_slots[i].end,
                                      busy_periods[j][1], busy_periods[j][2])

\* a busy period nested in an earlier one: the slot starts at the end of the
\* outer period
C24_Witness ==
    /\ Returned("tools")
    /\ Len(busy_periods) = 2
    /\ busy_periods[1][1] < busy_periods[2][1]
    /\ busy_periods[2][2] < busy_periods[1][2]
    /\ Len(free_slots) = 1
    /\ free_slots[1].start = busy_periods[1][2]
    /\ required_min >= 1

StartEnd(slots) == [i \in DOMAIN slots |-> << slots[i].start, slots[i].end >>]

\* C26: on the same payload, window and required_min the generator of tools.py
\* and the one of meeting_assistant.py return the same sequence of (start, end)
\* slots.
C26_BothFilesSameSlots ==
    (fn \in {"tools", "assistant"} /\ pc # "ready") =>
        LET t == ToolsFreeSlots(payload, start_iso, end_iso, required_min)
            a == AssistantFreeSlots(payload, start_iso, end_iso, required_min)
        IN /\ pc = "returned"
           /\ ~t.raised /\ ~a.raised
           /\ StartEnd(t.free_slots) = StartEnd(a.free_slots)
           /\ StartEnd(free_slots) = StartEnd(t.free_slots)

\* a gap longer than required_min before a busy period: the cap of tools.py is
\* not reached, and a trailing slot follows
C26_Witness ==
    /\ Returned("tools")
    /\ Len(free_slots) = 2
    /\ free_slots[1].end < free_slots[1].maxEnd
    /\ free_slots[1].end = free_slots[1].start + required_min
    /\ required_min >= 1

----------------------------------------------------------------------------
(* C21 : the generator called twice, under SpecRepeat.                     *)

----------------------------------------------------------------------------
(* C25 : the payload is only read, under SpecItems.                        *)

\* C25: no call of _free_slots_from_schedule or of
\* check_specific_time_availability changes the schedule payload.
C25_PayloadUnchanged == [][payload' = payload]_vars

\* the generator returned a busy list in another order than the schedule items,
\* which are still in the payload in their own order
C25_Witness ==
    /\ Returned("tools")
    /\ Len(InputPeriods) = 2
    /\ Len(busy_periods) = 2
    /\ busy_periods # InputPeriods
    /\ busy_periods[1] = InputPeriods[2]

----------------------------------------------------------------------------
(* C27 : a failed fetch in the availability check, under SpecCheck.        *)

\* C27: when the schedule fetch fails the check returns is_available false with
\* an error; is_available is true only when the schedule was fetched and no
\* blocking item overlaps the proposed interval.
C27_AvailableOnlyOnFetchedClearSchedule ==
    (pc = "returned" /\ fn = "check") =>
        /\ fetch = "failed" =>
              ~check_result.is_available /\ check_result.error # ""
        /\ check_result.is_available =>
              /\ fetch = "ok"
              /\ check_result.error = ""
              /\ ExpectedConflictItems = << >>

\* the fetch failed for an interval that nothing in the schedule overlaps
C27_Witness ==
    /\ pc = "returned"
    /\ fn = "check"
    /\ fetch = "failed"
    /\ duration_min >= 1
    /\ Len(InputPeriods) >= 1
    /\ ExpectedConflictItems = << >>
    /\ ~check_result.is_available

----------------------------------------------------------------------------
(* C28 : the result of book_meeting_slot, under SpecOps.                   *)

RequestsOf(i, name) == {k \in 1..Len(calls[i].sent) : calls[i].sent[k].request = name}

\* C28: book_meeting_slot reports success exactly when its event creation was
\* accepted (the calendar holds the new event); the standalone meeting creation
\* is requested at most once, only after the creation request, and only when
\* the event came without a join link; when it fails the result has success
\* true and a null teams_join_url.
C28_SuccessIffEventCreated ==
    \A i \in CallsOf({"book_meeting_slot"}) :
        /\ calls[i].result.success <=>
              /\ Len(calendar) = Len(calls[i].before) + 1
              /\ RequestsOf(i, "createEvent") # {}
              /\ calls[i].net.event \in {"ok", "ok_no_join_url"}
        /\ calls[i].result.success <=> calls[i].result.error = NoError
        /\ Cardinality(RequestsOf(i, "createOnlineMeeting")) <= 1
        /\ \A k \in RequestsOf(i, "createOnlineMeeting") :
              /\ \E j \in RequestsOf(i, "createEvent") : j < k
              /\ calls[i].net.event = "ok_no_join_url"
        /\ (calls[i].net.event = "ok_no_join_url" /\ calls[i].net.meeting # "ok"
              /\ DateTimeParses(calls[i].args.date, calls[i].args.start_time)) =>
              calls[i].result.success /\ calls[i].result.teams_join_url = Null

\* the event was created without a join link and the standalone creation timed out
C28_Witness ==
    \E i \in CallsOf({"book_meeting_slot"}) :
        /\ calls[i].net.event = "ok_no_join_url"
        /\ calls[i].net.meeting = "request_fails"
        /\ Len(calls[i].sent) = 2
        /\ calls[i].result.success
        /\ calls[i].result.teams_join_url = Null
        /\ Len(calendar) = Len(calls[i].before) + 1

----------------------------------------------------------------------------
(* src/patched_converter.py : PatchedConverter.items_to_messages_fixed     *)

MaxInputItems == 4     \* items in one input list

\* an element of `items`: a dict with the keys the function reads, or an object
\* that is no dict
DictItem(type, role, call_id, arguments, text) ==
    [is_dict |-> TRUE, type |-> type, role |-> role, call_id |-> call_id,
     name |-> IF type = "function_call" THEN "book_meeting_slot" ELSE Missing,
     arguments |-> arguments,
     content |-> IF type = "function_call_output" THEN Missing ELSE text,
     output |-> IF type = "function_call_output" THEN text ELSE Missing]
NonDictItem ==
    [is_dict |-> FALSE, type |-> Missing, role |-> Missing, call_id |-> Missing,
     name |-> Missing, arguments |-> Missing, content |-> Missing,
     output |-> Missing]

\* lines 19-28
CreateToolCallDict(call_id, name, arguments) ==
    [id |-> call_id, type |-> "function",
     function |-> [name |-> name, arguments |-> arguments]]

\* item["arguments"] or "{}"
ArgumentsOrEmpty(item) ==
    IF item.arguments \in {Null, ""} THEN "{}" ELSE item.arguments

MessageRoles == {"user", "system", "assistant", "developer"}

\* lines 39-46 : flush_assistant_message on the pair (result, current_assistant_msg);
\* an open message always holds a tool call, so its "tool_calls" key stays
Flush(st) ==
    IF st.current = NoMessage THEN st
    ELSE [result |-> Append(st.result, st.current), current |-> NoMessage]

\* lines 48-55 : ensure_assistant_message
EnsureAssistantMessage(cur) ==
    IF cur = NoMessage THEN [NoMessage EXCEPT !.role = "assistant"] ELSE cur

\* lines 72-77
ToolMessage(item) ==
    [NoMessage EXCEPT !.role = "tool", !.tool_call_id = item.call_id,
                      !.content = item.output]

\* lines 82-97 : content = item.get("content", "")
RoleMessage(item) ==
    [NoMessage EXCEPT !.role = item.role,
                      !.content = IF item.content = Missing THEN "" ELSE item.content]

\* variant: the tool message is appended without closing the open assistant message
ConvertStepNoFlushOnOutput(st, item) ==
    IF ~item.is_dict THEN st
    ELSE IF item.type = "function_call"
         THEN LET asst == EnsureAssistantMessage(st.current) IN
              [st EXCEPT !.current =
                  [asst EXCEPT !.tool_calls =
                      Append(asst.tool_calls,
                             CreateToolCallDict(item.call_id, item.name,
                                                ArgumentsOrEmpty(item)))]]
         ELSE IF item.type = "function_call_output"
              THEN [st EXCEPT !.result = Append(st.result, ToolMessage(item))]
              ELSE IF item.role \in MessageRoles
                   THEN LET f == Flush(st) IN
                        [f EXCEPT !.result = Append(f.result, RoleMessage(item))]
                   ELSE st

\* lines 57-97 : one iteration of the for loop
ConvertStep(st, item) ==
    IF ~item.is_dict THEN st
    ELSE IF item.type = "function_call"
         THEN LET asst == EnsureAssistantMessage(st.current) IN
              [st EXCEPT !.current =
                  [asst EXCEPT !.tool_calls =
                      Append(asst.tool_calls,
                             CreateToolCallDict(item.call_id, item.name,
                                                ArgumentsOrEmpty(item)))]]
         ELSE IF item.type = "function_call_output"
              THEN LET f == Flush(st) IN
                   [f EXCEPT !.result = Append(f.result, ToolMessage(item))]
              ELSE IF item.role \in MessageRoles
                   THEN LET f == Flush(st) IN
                        [f EXCEPT !.result = Append(f.result, RoleMessage(item))]
                   ELSE st

\* lines 35-39 : a string is answered at once, a list starts the loop
StartConversion ==
    /\ conv_pc = "start"
    /\ IF input_items.is_str
       THEN /\ messages' = << [NoMessage EXCEPT !.role = "user",
                                                !.content = input_items.text] >>
            /\ conv_pc' = "returned"
       ELSE /\ messages' = << >>
            /\ conv_pc' = "loop"
    /\ current_assistant_msg' = NoMessage
    /\ next_item' = 1
    /\ UNCHANGED <<Inputs, pc, fn, busy_periods, free_slots, fetch, check_result,
                   calendar, calls, input_items, DaysVars>>

ConvertItem ==
    /\ conv_pc = "loop"
    /\ next_item <= Len(input_items.list)
    /\ LET st == ConvertStep([result |-> messages, current |-> current_assistant_msg],
                             input_items.list[next_item])
       IN /\ messages' = st.result
          /\ current_assistant_msg' = st.current
    /\ next_item' = next_item + 1
    /\ UNCHANGED <<Inputs, pc, fn, busy_periods, free_slots, fetch, check_result,
                   calendar, calls, input_items, conv_pc, DaysVars>>

\* lines 99-100 : the last flush and the return
FinishConversion ==
    /\ conv_pc = "loop"
    /\ next_item > Len(input_items.list)
    /\ LET st == Flush([result |-> messages, current |-> current_assistant_msg])
       IN /\ messages' = st.result
          /\ current_assistant_msg' = st.current
    /\ conv_pc' = "returned"
    /\ UNCHANGED <<Inputs, pc, fn, busy_periods, free_slots, fetch, check_result,
                   calendar, calls, input_items, next_item, DaysVars>>

ConverterItems ==
    { DictItem("function_call", Missing, "call_1", "{\"date\": \"2024-01-15\"}", Missing),
      DictItem("function_call", Missing, "call_2", Null, Missing),
      DictItem("function_call_output", Missing, "call_1", Missing, "booked"),
      DictItem("message", "user", Missing, Missing, "hello"),
      DictItem("message", "assistant", Missing, Missing, Missing),
      DictItem("reasoning", Missing, Missing, Missing, Missing),
      NonDictItem }

ConverterInputs ==
    {[is_str |-> FALSE, text |-> "", list |-> l] :
        l \in SeqsUpTo(ConverterItems, MaxInputItems)}
        \cup {[is_str |-> TRUE, text |-> "hello", list |-> << >>]}

InitConverter ==
    /\ NoGeneratorCall
    /\ calendar = << >>
    /\ calls = << >>
    /\ DaysIdle
    /\ input_items \in ConverterInputs
    /\ next_item = 1
    /\ messages = << >>
    /\ current_assistant_msg = NoMessage
    /\ conv_pc = "start"

NextConverter == StartConversion \/ ConvertItem \/ FinishConversion

\* one call of items_to_messages_fixed, item by item
SpecConverter == InitConverter /\ [][NextConverter]_vars

----------------------------------------------------------------------------
(* C29 : the order of the converted messages, under SpecConverter.         *)

IsCall(item) == item.is_dict /\ item.type = "function_call"
IsHandled(item) ==
    item.is_dict /\ (item.type \in {"function_call", "function_call_output"}
                        \/ item.role \in MessageRoles)

\* the tool calls of the run of function_call items that starts at position i
RECURSIVE RunCalls(_, _)
RunCalls(list, i) ==
    IF i > Len(list) \/ ~IsCall(list[i]) THEN << >>
    ELSE << CreateToolCallDict(list[i].call_id, list[i].name, ArgumentsOrEmpty(list[i])) >>
             \o RunCalls(list, i + 1)

\* position i opens a maximal run of consecutive function_call items
RunStart(list, i) == IsCall(list[i]) /\ (i = 1 \/ ~IsCall(list[i - 1]))

\* the messages the claim describes for `list`: in input order, one assistant
\* message per maximal run of consecutive function_call items, holding the run's
\* tool calls, and one message per function_call_output or role item
ExpectedMessages(list) ==
    LET positions == [i \in 1..Len(list) |-> i]
        emitting == SelectSeq(positions,
                        LAMBDA i : RunStart(list, i)
                                      \/ (IsHandled(list[i]) /\ ~IsCall(list[i])))
        MessageAt(i) ==
            IF IsCall(list[i])
            THEN [NoMessage EXCEPT !.role = "assistant", !.tool_calls = RunCalls(list, i)]
            ELSE IF list[i].type = "function_call_output" THEN ToolMessage(list[i])
                 ELSE RoleMessage(list[i])
    IN [k \in DOMAIN emitting |-> MessageAt(emitting[k])]

\* C29 as stated: the messages returned for a list are, in input order, one
\* assistant message for each maximal run of consecutive function_call items
\* and one message for each function_call_output or role item.
C29_RunsOfInputBecomeMessages ==
    (conv_pc = "returned" /\ ~input_items.is_str) =>
        messages = ExpectedMessages(input_items.list)

\* C29 amended: the same, where the runs are taken in the list without the items
\* the loop skips (objects that are no dicts, dicts of another type and role):
\* function_call items separated only by skipped items share one assistant message.
C29_RunsOfHandledItemsBecomeMessages ==
    (conv_pc = "returned" /\ ~input_items.is_str) =>
        /\ messages = ExpectedMessages(SelectSeq(input_items.list, IsHandled))
        /\ current_assistant_msg = NoMessage

\* two function_call items around a skipped one, then the output of the first:
\* one assistant message with both tool calls, then the tool message
C29_Witness ==
    /\ conv_pc = "returned"
    /\ Len(input_items.list) = 4
    /\ IsCall(input_items.list[1])
    /\ ~IsHandled(input_items.list[2])
    /\ IsCall(input_items.list[3])
    /\ input_items.list[4].type = "function_call_output"
    /\ Len(messages) = 2
    /\ Len(messages[1].tool_calls) = 2
    /\ messages[2].role = "tool"

----------------------------------------------------------------------------
(* src/meeting_assistant.py : get_next_business_days                       *)
(* Dates are day numbers; day 0 is a Monday.                               *)

MaxNumDays == 6     \* num_days is at most this
LastDate == 13      \* date.max, the last day a date can hold

\* date.weekday() : 0 is Monday, 6 is Sunday
Weekday(d) == d % 7

\* date.strftime("%Y-%m-%d") : the text of the date
Strftime(d) == << "%Y-%m-%d", d >>

\* variant: Saturday counts as a business day
IsBusinessDaySixDays(d) == Weekday(d) < 6

\* line 255 : current_date.weekday() < 5
IsBusinessDay(d) == Weekday(d) < 5

\* lines 253-256 : one iteration of the while loop
NextDay ==
    /\ days_pc = "loop"
    /\ Len(business_days) < num_days
    /\ current_date < LastDate
    /\ current_date' = current_date + 1
    /\ business_days' = IF IsBusinessDay(current_date + 1)
                        THEN Append(business_days, Strftime(current_date + 1))
                        ELSE business_days
    /\ UNCHANGED <<Inputs, pc, fn, busy_periods, free_slots, fetch, check_result,
                   calendar, calls, ConverterVars, num_days, today, days_pc>>

\* line 254 : current_date += timedelta(days=1) past date.max raises OverflowError
DateOverflow ==
    /\ days_pc = "loop"
    /\ Len(business_days) < num_days
    /\ current_date = LastDate
    /\ days_pc' = "raised"
    /\ UNCHANGED <<Inputs, pc, fn, busy_periods, free_slots, fetch, check_result,
                   calendar, calls, ConverterVars, num_days, today, current_date,
                   business_days>>

\* lines 253 and 257 : the loop condition fails and the list is returned
ReturnDays ==
    /\ days_pc = "loop"
    /\ Len(business_days) >= num_days
    /\ days_pc' = "returned"
    /\ UNCHANGED <<Inputs, pc, fn, busy_periods, free_slots, fetch, check_result,
                   calendar, calls, ConverterVars, num_days, today, current_date,
                   business_days>>

\* the call has run lines 251-252: the list is empty, current_date is today
InitDays ==
    /\ NoGeneratorCall
    /\ calendar = << >>
    /\ calls = << >>
    /\ ConverterIdle
    /\ num_days \in -2..MaxNumDays
    /\ today \in 0..6
    /\ current_date = today
    /\ business_days = << >>
    /\ days_pc = "loop"

NextDays == NextDay \/ DateOverflow \/ ReturnDays

\* one call of get_next_business_days; the loop keeps running while it can
SpecDays == InitDays /\ [][NextDays]_vars /\ WF_vars(NextDays)

----------------------------------------------------------------------------
(* C30 : the business days returned, under SpecDays.                       *)

\* the date a returned text names
DateOf(text) == text[2]

\* the weekdays after today that a date can still hold
WeekdaysLeft == {d \in (today + 1)..LastDate : Weekday(d) < 5}

ReturnedDaysAreTheNextWeekdays ==
    LET n == IF num_days > 0 THEN num_days ELSE 0 IN
    /\ Len(business_days) = n
    /\ \A i \in 1..n :
          /\ DateOf(business_days[i]) > today
          /\ Weekday(DateOf(business_days[i])) \in 0..4
          /\ business_days[i] = Strftime(DateOf(business_days[i]))
    /\ \A i \in 1..(n - 1) : DateOf(business_days[i]) < DateOf(business_days[i + 1])
    /\ n >= 1 =>
          \A d \in (today + 1)..DateOf(business_days[n]) :
              Weekday(d) \in 0..4 => \E i \in 1..n : DateOf(business_days[i]) = d

\* C30 as stated: for every integer n the call returns, never raises, and the
\* list returned holds exactly max(n, 0) dates, strictly increasing, after
\* today, Monday to Friday, with no weekday skipped.
C30_AlwaysReturnsNextWeekdays ==
    /\ days_pc # "raised"
    /\ days_pc = "returned" => ReturnedDaysAreTheNextWeekdays

\* C30 amended: the call always ends; when n is at most the number of weekdays
\* between today and the last representable date it returns exactly max(n, 0)
\* dates, strictly increasing, after today, Monday to Friday, with no weekday
\* skipped; for a larger n it ends with OverflowError after the last date.
C30_ReturnsNextWeekdaysOrOverflows ==
    /\ [](days_pc = "returned" => ReturnedDaysAreTheNextWeekdays)
    /\ [](num_days <= Cardinality(WeekdaysLeft) => days_pc # "raised")
    /\ [](days_pc = "raised" =>
             num_days > Cardinality(WeekdaysLeft) /\ current_date = LastDate)
    /\ <>(days_pc \in {"returned", "raised"})

\* called on a Friday for two days: the Monday and the Tuesday after the weekend
C30_Witness ==
    /\ days_pc = "returned"
    /\ today = 4
    /\ num_days = 2
    /\ business_days = << Strftime(7), Strftime(8) >>

====
